---- MODULE Spec2Model ----
(***************************************************************************)
(* Dataset versioning and ingestion engine of phoenix.                     *)
(*                                                                         *)
(* The revision log (datasets, versions, examples, revisions) is the SQL  *)
(* store; the snapshot export is the query of _get_dataset_download_csv;  *)
(* the upload intake is post_datasets_upload; the admission queue and the *)
(* background worker that applies admitted jobs are the ingestion         *)
(* pipeline of the design document (their code is outside src/).          *)
(***************************************************************************)
EXTENDS Integers, Sequences, FiniteSets, TLC

VARIABLES
    datasets,    \* models.Dataset rows: sequence of names, id = position
    versions,    \* models.DatasetVersion rows: sequence of records, id = position
    examples,    \* models.DatasetExample rows: sequence of dataset ids, id = position
    revisions,   \* models.DatasetExampleRevision rows: set of records
    download,    \* the snapshot export being answered: its request and its response
    read_only,   \* request.app.state.read_only
    maxsize,     \* the capacity the admission queue was made with
    queue,       \* the admission queue: the admitted jobs, oldest first
    transaction, \* the worker's open transaction: its job, the rows written so far
    uploads,     \* the upload requests received: form, lifecycle state, response
    annotations, \* models.ExperimentRunAnnotation rows committed: set of records
    calls,       \* the requests of the evaluation upsert route: payload, position, row
    storeCall,   \* the appendRevision call the store is answering, and how it ended
    now,         \* datetime.now(): the wall clock, in seconds
    _data,       \* _OAuthClientTTLCache._data: key -> (value, expiry)
    _last_cleanup_time, \* _OAuthClientTTLCache._last_cleanup_time
    lastSet,     \* per key, the most recent set (None after a delete or before any)
    cacheCall,   \* the get call the cache is answering: key, time, value returned
    thread,      \* the running call of migrate: where it is, what it raised, how it ended
    error_queue, \* the SimpleQueue given to migrate (None when none was given)
    migration,   \* the caller of migrate: migrate_in_thread or a direct call, its position
    migrations   \* the finished calls, oldest first

storeVars == <<datasets, versions, examples, revisions>>
pipelineVars == <<read_only, maxsize, queue, transaction, uploads>>
upsertVars == <<annotations, calls>>
cacheVars == <<now, _data, _last_cleanup_time, lastSet, cacheCall>>
migrateVars == <<thread, error_queue, migration, migrations>>
\* The state the dataset routes, the queue and the worker leave alone.
serviceVars == <<upsertVars, storeCall, cacheVars, migrateVars>>
datasetVars ==
    <<datasets, versions, examples, revisions, download, read_only, maxsize, queue,
      transaction, uploads, storeCall>>
vars ==
    <<datasets, versions, examples, revisions, download, read_only, maxsize, queue,
      transaction, uploads, annotations, calls, storeCall, now, _data,
      _last_cleanup_time, lastSet, cacheCall, thread, error_queue, migration,
      migrations>>

\* The keys the OAuth integration caches under.
CacheKeys == {"state", "nonce"}

\* No request of the other routes was received and no direct call made.
InitServices ==
    /\ annotations = {}
    /\ calls = <<>>
    /\ storeCall = <<>>
    /\ now = 0
    /\ _data = [key \in {} |-> <<>>]
    /\ _last_cleanup_time = 0
    /\ lastSet = [key \in CacheKeys |-> <<>>]
    /\ cacheCall = <<>>
    /\ thread = [pc |-> "none", place |-> 0, error |-> <<>>]
    /\ error_queue = <<>>
    /\ migration = [pc |-> "idle", kind |-> ""]
    /\ migrations = <<>>

(***************************************************************************)
(* Bounds of the model.                                                    *)
(***************************************************************************)
MaxVersions == 3
MaxExamples == 2
\* The greatest capacity of the admission queue.
MaxQueue == 2
\* The number of upload requests the server receives.
MaxUploads == 2

\* Python's Optional: None is the empty sequence, a present value x is <<x>>.
None == <<>>
Some(x) == <<x>>

(***************************************************************************)
(* Documents (Python dicts) are functions from keys to values.             *)
(***************************************************************************)
EmptyDict == [k \in {} |-> ""]

\* {**a, **b}: the keys of both, b's value where both have the key.
Merge(a, b) ==
    [k \in (DOMAIN a) \cup (DOMAIN b) |-> IF k \in DOMAIN b THEN b[k] ELSE a[k]]

Max(S) == CHOOSE x \in S : \A y \in S : y <= x

\* The elements of a finite set of integers in ascending order.
RECURSIVE SortedSeq(_)
SortedSeq(S) ==
    IF S = {} THEN <<>>
    ELSE LET m == CHOOSE x \in S : \A y \in S : x <= y
         IN <<m>> \o SortedSeq(S \ {m})

Range(s) == {s[i] : i \in DOMAIN s}

(***************************************************************************)
(* Payloads the writers of the log may append.                             *)
(***************************************************************************)
\* The payload a writer appends for example e at version v: every revision's
\* content names its own example and version, so that a snapshot shows which
\* revision each of its rows was read from.
Payload(e, v) ==
    [input |-> ("q" :> <<"q", e, v>>), output |-> ("a" :> <<"a", e, v>>),
     metadata_ |-> ("tag" :> <<"tag", e, v>>)]
NoPayload == [input |-> EmptyDict, output |-> EmptyDict, metadata_ |-> EmptyDict]

Revision(e, v, kind, p) ==
    [dataset_example_id |-> e, dataset_version_id |-> v, revision_kind |-> kind,
     input |-> p.input, output |-> p.output, metadata_ |-> p.metadata_]

(***************************************************************************)
(* Revision Log Store (design document, section 4.1).                      *)
(***************************************************************************)
DatasetIds == DOMAIN datasets
VersionIds == DOMAIN versions
ExampleIds == DOMAIN examples
ExamplesOf(d) == {e \in ExampleIds : examples[e] = d}
VersionsOf(d) == {v \in VersionIds : versions[v].dataset_id = d}
HasRevision(e) == \E r \in revisions : r.dataset_example_id = e

\* createVersion(datasetId): the id the next version of the dataset gets.
\* (An allocator that did not advance would return the latest id again.)
createVersion_Reused(d) == IF versions = <<>> THEN 1 ELSE Len(versions)

createVersion(d) == Len(versions) + 1

\* The batched appendRevision of one version: `creates` holds the payloads of
\* the newly minted examples, `edits` maps existing examples to PATCH or DELETE.
\* InvalidState if a PATCH or DELETE names an example with no prior revision.
BatchAccepted(d, edits) ==
    \A e \in DOMAIN edits : e \in ExamplesOf(d) /\ HasRevision(e)

BatchRevisions(v, creates, edits) ==
    {Revision(Len(examples) + i, v, "CREATE", creates[i]) : i \in DOMAIN creates}
    \cup {Revision(e, v, edits[e],
                    IF edits[e] = "DELETE" THEN NoPayload ELSE Payload(e, v))
            : e \in DOMAIN edits}

\* One ingestion: a version and its batch of revisions, created together.
CommitVersion(d, origin, creates, edits) ==
    LET v == createVersion(d) IN
    /\ versions' = Append(versions, [dataset_id |-> d, origin |-> origin])
    /\ examples' = examples \o [i \in DOMAIN creates |-> d]
    /\ revisions' = revisions \cup BatchRevisions(v, creates, edits)

\* An explicit creation of a dataset; names are globally unique.
CreateDataset(name) ==
    /\ download = None
    /\ name \notin Range(datasets)
    /\ datasets' = Append(datasets, name)
    /\ UNCHANGED <<versions, examples, revisions, download, pipelineVars, serviceVars>>

Edits == {"PATCH", "DELETE"}
\* The numbers of revisions a writer appends in one batch.
BatchSizes == {1, 2}

\* A writer appends one batch at a newly allocated version of dataset d.
AppendBatch(d, creates, edits) ==
    /\ download = None
    /\ d \in DatasetIds
    /\ Len(versions) < MaxVersions
    /\ Len(examples) + creates <= MaxExamples
    /\ creates + Cardinality(DOMAIN edits) \in BatchSizes
    /\ BatchAccepted(d, edits)
    /\ CommitVersion(d, 0,
                     [i \in 1..creates |-> Payload(Len(examples) + i, createVersion(d))],
                     edits)
    /\ UNCHANGED <<datasets, download, pipelineVars, serviceVars>>

(***************************************************************************)
(* Snapshot export: _get_dataset_download_csv.                             *)
(***************************************************************************)
\* The database session the handler reads through: the committed tables.
\* (Under read-uncommitted isolation it would see the tables as the worker's
\* open transaction has them.)
Session_ReadUncommitted ==
    IF transaction = None
    THEN [datasets |-> datasets, versions |-> versions,
          examples |-> examples, revisions |-> revisions]
    ELSE transaction[1].session

Session ==
    [datasets |-> datasets, versions |-> versions,
     examples |-> examples, revisions |-> revisions]

\* The revisions of the examples of the dataset at or below the ceiling: the
\* join to DatasetExample and the two where clauses of latest_version.
latest_version_rows_AnyVersion(session, dataset_id, max_dataset_version_id) ==
    {r \in session.revisions : session.examples[r.dataset_example_id] = dataset_id}

latest_version_rows(session, dataset_id, max_dataset_version_id) ==
    {r \in session.revisions :
        /\ session.examples[r.dataset_example_id] = dataset_id
        /\ (max_dataset_version_id # None
              => r.dataset_version_id <= max_dataset_version_id[1])}

\* The subquery latest_version: one row per example (group by), with its rank
\* among the grouped rows minus one and the greatest version of its group.
latest_version(session, dataset_id, max_dataset_version_id) ==
    LET rows == latest_version_rows(session, dataset_id, max_dataset_version_id)
        groups == {r.dataset_example_id : r \in rows}
    IN {[dataset_example_id |-> e,
         example_index |-> Cardinality({g \in groups : g < e}),
         dataset_version_id |->
             Max({r.dataset_version_id : r \in {x \in rows : x.dataset_example_id = e}})]
        : e \in groups}

\* The join of stmt: the revisions joined to latest_version on example and
\* version, DELETE revisions filtered out.
stmt_join_KeepDeleted(session, subq) ==
    {<<r, s>> \in session.revisions \X subq :
        /\ r.dataset_example_id = s.dataset_example_id
        /\ r.dataset_version_id = s.dataset_version_id}

stmt_join_CreatedOnly(session, subq) ==
    {<<r, s>> \in session.revisions \X subq :
        /\ r.dataset_example_id = s.dataset_example_id
        /\ r.dataset_version_id = s.dataset_version_id
        /\ r.revision_kind = "CREATE"}

stmt_join(session, subq) ==
    {<<r, s>> \in session.revisions \X subq :
        /\ r.dataset_example_id = s.dataset_example_id
        /\ r.dataset_version_id = s.dataset_version_id
        /\ r.revision_kind # "DELETE"}

\* The statement stmt: the joined rows ordered by example id. Each row keeps
\* the example and version it was read from beside the selected columns.
stmt_row(j) ==
    [input |-> j[1].input, output |-> j[1].output, metadata_ |-> j[1].metadata_,
     example_index |-> j[2].example_index,
     dataset_example_id |-> j[1].dataset_example_id,
     dataset_version_id |-> j[1].dataset_version_id]

stmt(session, dataset_id, max_dataset_version_id) ==
    LET joined == stmt_join(session,
                            latest_version(session, dataset_id, max_dataset_version_id))
        order == SortedSeq({j[1].dataset_example_id : j \in joined})
    IN [i \in DOMAIN order |->
           stmt_row(CHOOSE j \in joined : j[1].dataset_example_id = order[i])]

\* getSnapshot of the design document is the result of stmt on the store.
getSnapshot(d, asOf) == stmt(Session, d, asOf)

\* A response: its status code, its text content, and (a snapshot export's
\* attachment) the exported records.
Response(status, content, records) ==
    [status |-> status, content |-> content, records |-> records]

\* A global id is a type name and a node id; an absent path parameter is None.
GlobalID(type_name, node_id) == Some([type_name |-> type_name, node_id |-> node_id])

get_dataset_download_csv(session, datasetId, datasetVersionId) ==
    IF datasetId = None THEN Response(422, "Missing Dataset ID", <<>>)
    ELSE IF datasetId[1].type_name # "Dataset" THEN Response(422, "Invalid Dataset ID", <<>>)
    ELSE IF datasetVersionId # None /\ datasetVersionId[1].type_name # "DatasetVersion"
        THEN Response(422, "Invalid Dataset Version ID", <<>>)
    ELSE IF datasetId[1].node_id \notin DOMAIN session.datasets
        THEN Response(404, "Dataset does not exist.", <<>>)
    ELSE LET rows == stmt(session, datasetId[1].node_id,
                          IF datasetVersionId = None THEN None
                          ELSE Some(datasetVersionId[1].node_id))
             records == [i \in DOMAIN rows |->
                            Merge(Merge(Merge(rows[i].metadata_, rows[i].input),
                                        rows[i].output),
                                  "__example_index__" :> rows[i].example_index)]
         IN IF records = <<>> THEN Response(404, "Dataset has no examples", <<>>)
            ELSE Response(200, "", records)

\* The path parameters a snapshot export is requested with.
\* The first dataset is exported at every ceiling: none, each version id of
\* the store (its own and the other datasets'), one below and one above them.
VersionGids == {None} \cup {GlobalID("DatasetVersion", n) : n \in 0..(Len(versions) + 1)}
DownloadParams ==
    {<<None, None>>, <<GlobalID("DatasetVersion", 1), None>>,
     <<GlobalID("Dataset", 1), GlobalID("Dataset", 1)>>,
     <<GlobalID("Dataset", Len(datasets) + 1), None>>}
    \cup ({GlobalID("Dataset", 1)} \X VersionGids)

\* The handler runs its query in one statement and then returns: `download`
\* holds the request and its response until the handler has returned. A write
\* that commits between the two steps changes neither, so the model orders it
\* after the return.
Download_Consuming(datasetId, datasetVersionId) ==
    /\ download = None
    /\ download' = Some([datasetId |-> datasetId, datasetVersionId |-> datasetVersionId,
                         response |-> get_dataset_download_csv(Session, datasetId,
                                                              datasetVersionId)])
    /\ queue' = IF queue = <<>> THEN queue ELSE Tail(queue)
    /\ UNCHANGED <<storeVars, read_only, maxsize, transaction, uploads, serviceVars>>

Download(datasetId, datasetVersionId) ==
    /\ download = None
    /\ download' = Some([datasetId |-> datasetId, datasetVersionId |-> datasetVersionId,
                         response |-> get_dataset_download_csv(Session, datasetId,
                                                              datasetVersionId)])
    /\ UNCHANGED <<storeVars, pipelineVars, serviceVars>>

DownloadReturn ==
    /\ download # None
    /\ download' = None
    /\ UNCHANGED <<storeVars, pipelineVars, serviceVars>>

(***************************************************************************)
(* The revision log under its writers and the snapshot export.             *)
(***************************************************************************)
\* The names the datasets are created with, in the order of their creation.
DatasetNames == <<"a", "b">>

InitLog ==
    /\ datasets = <<>>
    /\ versions = <<>>
    /\ examples = <<>>
    /\ revisions = {}
    /\ download = None
    /\ read_only = FALSE
    /\ maxsize = MaxQueue
    /\ queue = <<>>
    /\ transaction = None
    /\ uploads = <<>>
    /\ InitServices

NextLog ==
    \/ /\ Len(datasets) < Len(DatasetNames)
       /\ CreateDataset(DatasetNames[Len(datasets) + 1])
    \/ \E d \in DatasetIds, creates \in 0..MaxExamples :
          \E S \in SUBSET ExamplesOf(d) : \E edits \in [S -> Edits] :
              AppendBatch(d, creates, edits)
    \/ \E p \in DownloadParams : Download(p[1], p[2])
    \/ DownloadReturn

SpecLog == InitLog /\ [][NextLog]_vars

(***************************************************************************)
(* Upload intake: post_datasets_upload and the functions it calls.         *)
(***************************************************************************)
\* The outcome of a call: the value it returns or the exception it raises.
Return(value) == [raised |-> "", value |-> value]
Raise(exception, message) == [raised |-> exception, message |-> message]

\* The exception classes that `except ValueError` catches (UnicodeDecodeError
\* is a subclass of ValueError); any other exception leaves the handler.
ValueErrors == {"ValueError", "UnicodeDecodeError"}

\* Header values are Python strings: sequences of code points.
isascii(s) == \A i \in DOMAIN s : s[i] < 128
\* str.islower and str.lower on the ASCII strings they are called with.
islower(s) ==
    /\ \E i \in DOMAIN s : s[i] \in (65..90) \cup (97..122)
    /\ \A i \in DOMAIN s : s[i] \notin 65..90
lower(s) == [i \in DOMAIN s |-> IF s[i] \in 65..90 THEN s[i] + 32 ELSE s[i]]

\* class FileContentType(Enum)
CSV == <<116, 101, 120, 116, 47, 99, 115, 118>>
PYARROW ==
    <<97, 112, 112, 108, 105, 99, 97, 116, 105, 111, 110, 47, 120, 45,
      112, 97, 110, 100, 97, 115, 45, 112, 121, 97, 114, 114, 111, 119>>

\* FileContentType(v): the member whose value is v, else _missing_(v). A
\* string that lower() leaves unchanged calls cls(v.lower()) with its own
\* argument again, without end: Python raises RecursionError.
RECURSIVE FileContentType(_)
FileContentType_missing_CaseSensitive(v) ==
    Raise("ValueError", <<"Invalid file content type", v>>)

FileContentType_missing(v) ==
    IF v # None /\ v[1] # <<>> /\ isascii(v[1]) /\ ~islower(v[1])
    THEN IF lower(v[1]) = v[1]
         THEN Raise("RecursionError", <<"maximum recursion depth exceeded">>)
         ELSE FileContentType(Some(lower(v[1])))
    ELSE Raise("ValueError", <<"Invalid file content type", v>>)

FileContentType(v) ==
    IF v # None /\ v[1] \in {CSV, PYARROW} THEN Return(v[1])
    ELSE FileContentType_missing(v)

\* class FileContentEncoding(Enum)
NONE == <<110, 111, 110, 101>>
GZIP == <<103, 122, 105, 112>>
DEFLATE == <<100, 101, 102, 108, 97, 116, 101>>

RECURSIVE FileContentEncoding(_)
FileContentEncoding_missing(v) ==
    IF v = None THEN FileContentEncoding(Some(NONE))
    ELSE IF v[1] # <<>> /\ isascii(v[1]) /\ ~islower(v[1])
    THEN IF lower(v[1]) = v[1]
         THEN Raise("RecursionError", <<"maximum recursion depth exceeded">>)
         ELSE FileContentEncoding(Some(lower(v[1])))
    ELSE Raise("ValueError", <<"Invalid file content encoding", v>>)

FileContentEncoding(v) ==
    IF v # None /\ v[1] \in {NONE, GZIP, DEFLATE} THEN Return(v[1])
    ELSE FileContentEncoding_missing(v)

\* The bytes of a file part: `wire` is the compression the bytes are in,
\* `format` what they hold once decompressed, `lines` the rows of the table
\* they hold (of a CSV text the first line is the column header).
Content(wire, format, lines) == [wire |-> wire, format |-> format, lines |-> lines]

\* gzip.decompress and zlib.decompress: the decompressed bytes, or the
\* library's error (gzip.BadGzipFile is an OSError, zlib.error an Exception).
gzip_decompress(content) ==
    IF content.wire = "gzip" THEN Return([content EXCEPT !.wire = "identity"])
    ELSE Raise("BadGzipFile", <<"Not a gzipped file">>)
zlib_decompress(content) ==
    IF content.wire = "deflate" THEN Return([content EXCEPT !.wire = "identity"])
    ELSE Raise("zlib.error", <<"Error -3 while decompressing data">>)

\* bytes.decode(): compressed bytes and Arrow streams are not UTF-8 text.
decode(content) ==
    IF content.wire = "identity" /\ content.format = "csv" THEN Return(content.lines)
    ELSE Raise("UnicodeDecodeError", <<"'utf-8' codec can't decode byte">>)

\* csv.DictReader.fieldnames: the first line of the text, None if there is none.
fieldnames(lines) == IF lines = <<>> THEN None ELSE Some(lines[1])

\* Counter(fieldnames).most_common(1): the first of the most frequent names.
Count(names, h) == Cardinality({i \in DOMAIN names : names[i] = h})
most_common(names) ==
    LET top == CHOOSE i \in DOMAIN names :
                   /\ \A j \in DOMAIN names : Count(names, names[j]) <= Count(names, names[i])
                   /\ \A j \in 1..(i - 1) : Count(names, names[j]) < Count(names, names[i])
    IN <<names[top], Count(names, names[top])>>

\* The dict a reader yields for one row under the column names.
Record(names, row) ==
    [k \in Range(names) |-> row[CHOOSE i \in DOMAIN names : names[i] = k]]
Records(names, rows) == [i \in DOMAIN rows |-> Record(names, rows[i])]

\* _process_csv: the examples of the file and its column headers.
_process_csv_AnyHeader(content, content_encoding) ==
    LET decompressed == IF content_encoding = GZIP THEN gzip_decompress(content)
                        ELSE IF content_encoding = DEFLATE THEN zlib_decompress(content)
                        ELSE Return(content)
        text == decode(decompressed.value)
        names == fieldnames(text.value)
    IN IF decompressed.raised # "" THEN decompressed
       ELSE IF text.raised # "" THEN text
       ELSE IF names = None THEN Raise("ValueError", <<"Missing CSV column header">>)
       ELSE Return([examples |-> Records(names[1], Tail(text.value)),
                    column_headers |-> Range(names[1])])

_process_csv(content, content_encoding) ==
    LET decompressed == IF content_encoding = GZIP THEN gzip_decompress(content)
                        ELSE IF content_encoding = DEFLATE THEN zlib_decompress(content)
                        ELSE Return(content)
        text == decode(decompressed.value)
        names == fieldnames(text.value)
    IN IF decompressed.raised # "" THEN decompressed
       ELSE IF text.raised # "" THEN text
       ELSE IF names = None THEN Raise("ValueError", <<"Missing CSV column header">>)
       ELSE IF names[1] = <<>>
           \* (header, freq), *_ = [] cannot be unpacked
           THEN Raise("ValueError", <<"not enough values to unpack (expected at least 1, got 0)">>)
       ELSE IF most_common(names[1])[2] > 1
           THEN Raise("ValueError", <<"Duplicated column header in CSV file", most_common(names[1])[1]>>)
       ELSE Return([examples |-> Records(names[1], Tail(text.value)),
                    column_headers |-> Range(names[1])])

\* _process_pyarrow: pa.ipc.open_stream raises ArrowInvalid on bytes that are
\* not an Arrow stream; the column headers are the names of the schema.
_process_pyarrow(content) ==
    IF content.wire = "identity" /\ content.format = "arrow"
    THEN Return([examples |-> Records(content.lines[1], Tail(content.lines)),
                 column_headers |-> Range(content.lines[1])])
    ELSE Raise("ValueError", <<"File is not valid pyarrow">>)

\* _check_table_exists: whether a dataset of that name is in the store.
_check_table_exists_Never(session, name) == FALSE

_check_table_exists(session, name) == name \in Range(session.datasets)

_check_keys_exist_InputOnly(column_headers, input_keys, output_keys, metadata_keys) ==
    IF input_keys \ column_headers # {}
        THEN Raise("ValueError", <<"input keys not found in column headers",
                                   input_keys \ column_headers>>)
    ELSE Return(None)

_check_keys_exist(column_headers, input_keys, output_keys, metadata_keys) ==
    IF input_keys \ column_headers # {}
        THEN Raise("ValueError", <<"input keys not found in column headers",
                                   input_keys \ column_headers>>)
    ELSE IF output_keys \ column_headers # {}
        THEN Raise("ValueError", <<"output keys not found in column headers",
                                   output_keys \ column_headers>>)
    ELSE IF metadata_keys \ column_headers # {}
        THEN Raise("ValueError", <<"metadata keys not found in column headers",
                                   metadata_keys \ column_headers>>)
    ELSE Return(None)

\* DatasetAction(value): the action of that value (phoenix.db.insertion.dataset).
DatasetAction(value) ==
    IF value \in {"create", "append"} THEN Return(value)
    ELSE Raise("ValueError", <<"not a valid DatasetAction", value>>)

\* A multipart form. Absent fields are None; the file field is an uploaded
\* file part or a plain text field.
UploadFile(content_type, content_encoding, content) ==
    [upload |-> TRUE, content_type |-> content_type,
     content_encoding |-> content_encoding, content |-> content]
TextField == [upload |-> FALSE]
FormData(name, action, file, input_keys, output_keys, metadata_keys) ==
    [name |-> name, action |-> action, file |-> file, input_keys |-> input_keys,
     output_keys |-> output_keys, metadata_keys |-> metadata_keys]

_parse_form_data(form) ==
    LET action == DatasetAction(IF form.action = None \/ form.action = Some("")
                                THEN "create" ELSE form.action[1])
    IN IF form.name = None \/ form.name = Some("")
           THEN Raise("ValueError", <<"Dataset name must not be empty">>)
       ELSE IF action.raised # "" THEN action
       ELSE IF form.file = None THEN Raise("KeyError", <<"file">>)
       ELSE IF ~form.file[1].upload
           THEN Raise("ValueError", <<"Malformed file in form data.">>)
       ELSE IF form.input_keys \cap form.output_keys # {}
           THEN Raise("ValueError", <<"input_keys, output_keys have overlap",
                                      form.input_keys \cap form.output_keys>>)
       ELSE IF form.input_keys \cap form.metadata_keys # {}
           THEN Raise("ValueError", <<"input_keys and metadata_keys have overlap",
                                      form.input_keys \cap form.metadata_keys>>)
       ELSE IF form.output_keys \cap form.metadata_keys # {}
           THEN Raise("ValueError", <<"output_keys and metadata_keys have overlap",
                                      form.output_keys \cap form.metadata_keys>>)
       ELSE Return([action |-> action.value, name |-> form.name[1],
                    input_keys |-> form.input_keys, output_keys |-> form.output_keys,
                    metadata_keys |-> form.metadata_keys, file |-> form.file[1]])

\* post_datasets_upload up to the read of the file: the read-only switch, the
\* form, and for a create the name check. The outcome is the response the
\* handler returns here (None if it goes on) and what caused it.
Outcome(response, cause) == [response |-> response, cause |-> cause]
\* An exception that no except clause catches leaves the handler; the server
\* answers 500.
Unhandled(exception) ==
    Outcome(Some(Response(500, <<"Internal Server Error">>, <<>>)), exception)

\* The handler with the read-only check after the form is parsed and the name
\* looked up.
post_datasets_upload_form_ParseFirst(readOnly, session, form) ==
    LET parsed == _parse_form_data(form) IN
    IF parsed.raised \in ValueErrors
        THEN Outcome(Some(Response(422, parsed.message, <<>>)), parsed.raised)
    ELSE IF parsed.raised # "" THEN Unhandled(parsed.raised)
    ELSE IF /\ parsed.value.action = "create"
            /\ _check_table_exists(session, parsed.value.name)
        THEN Outcome(Some(Response(422, <<"Dataset already exists", parsed.value.name>>,
                                   <<>>)),
                     "Dataset already exists")
    ELSE IF readOnly THEN Outcome(Some(Response(403, <<>>, <<>>)), "read_only")
    ELSE Outcome(None, "")

post_datasets_upload_form(readOnly, session, form) ==
    LET parsed == _parse_form_data(form) IN
    IF readOnly THEN Outcome(Some(Response(403, <<>>, <<>>)), "read_only")
    ELSE IF parsed.raised \in ValueErrors
        THEN Outcome(Some(Response(422, parsed.message, <<>>)), parsed.raised)
    ELSE IF parsed.raised # "" THEN Unhandled(parsed.raised)
    ELSE IF /\ parsed.value.action = "create"
            /\ _check_table_exists(session, parsed.value.name)
        THEN Outcome(Some(Response(422, <<"Dataset already exists", parsed.value.name>>,
                                   <<>>)),
                     "Dataset already exists")
    ELSE Outcome(None, "")

\* post_datasets_upload from the content type to the check of the keys: the
\* examples and column headers of the file, or the exception raised.
post_datasets_upload_file(parsed) ==
    LET file == parsed.file
        content_type == FileContentType(file.content_type)
        content_encoding == FileContentEncoding(file.content_encoding)
        processed == IF content_type.value = CSV
                     THEN IF content_encoding.raised # "" THEN content_encoding
                          ELSE _process_csv(file.content, content_encoding.value)
                     ELSE _process_pyarrow(file.content)
        checked == _check_keys_exist(processed.value.column_headers, parsed.input_keys,
                                     parsed.output_keys, parsed.metadata_keys)
    IN IF content_type.raised # "" THEN content_type
       ELSE IF processed.raised # "" THEN processed
       ELSE IF checked.raised # "" THEN checked
       ELSE processed

\* enqueue_operation: the non-blocking put on the admission queue.
enqueue_operation(q, job) ==
    IF Len(q) >= maxsize THEN Raise("QueueFull", <<>>) ELSE Return(Append(q, job))

\* The job post_datasets_upload submits: add_dataset_examples with its
\* arguments, and the upload it originates from.
Job(upload, parsed, records) ==
    [upload |-> upload, action |-> parsed.action, name |-> parsed.name,
     examples |-> records, input_keys |-> parsed.input_keys,
     output_keys |-> parsed.output_keys, metadata_keys |-> parsed.metadata_keys]

\* post_datasets_upload from the submission on: the queue it leaves, the
\* response it returns, and whether `examples`, the lazy sequence it made for
\* the job, is open (the job holds it) or was closed by examples.close().
post_datasets_upload_enqueue_Front(q, job) ==
    LET put == enqueue_operation(q, job) IN
    IF put.raised = "QueueFull"
    THEN [queue |-> q, response |-> Response(429, <<>>, <<>>), cause |-> "QueueFull",
          examples |-> "closed"]
    ELSE [queue |-> <<job>> \o q, response |-> Response(200, <<>>, <<>>), cause |-> "",
          examples |-> "open"]

post_datasets_upload_enqueue_OverCapacity(q, job) ==
    [queue |-> Append(q, job), response |-> Response(429, <<>>, <<>>), cause |-> "QueueFull",
     examples |-> "closed"]

post_datasets_upload_enqueue_Leaking(q, job) ==
    LET put == enqueue_operation(q, job) IN
    IF put.raised = "QueueFull"
    THEN [queue |-> q, response |-> Response(429, <<>>, <<>>), cause |-> "QueueFull",
          examples |-> "open"]
    ELSE [queue |-> put.value, response |-> Response(200, <<>>, <<>>), cause |-> "",
          examples |-> "open"]

\* The handler with QueueFull swallowed: the request is acknowledged and the
\* job is not in the queue.
post_datasets_upload_enqueue_Swallowing(q, job) ==
    LET put == enqueue_operation(q, job) IN
    IF put.raised = "QueueFull"
    THEN [queue |-> q, response |-> Response(200, <<>>, <<>>), cause |-> "",
          examples |-> "open"]
    ELSE [queue |-> put.value, response |-> Response(200, <<>>, <<>>), cause |-> "",
          examples |-> "open"]

post_datasets_upload_enqueue(q, job) ==
    LET put == enqueue_operation(q, job) IN
    IF put.raised = "QueueFull"
    THEN [queue |-> q, response |-> Response(429, <<>>, <<>>), cause |-> "QueueFull",
          examples |-> "closed"]
    ELSE [queue |-> put.value, response |-> Response(200, <<>>, <<>>), cause |-> "",
          examples |-> "open"]

\* A request of the upload route: its form, its lifecycle state, the response
\* returned (None while the handler runs) and what caused a failure; and the
\* times on the clock of the pipeline at which its job was admitted to the
\* queue and at which the worker was done with it (0: not yet); and whether
\* the lazy sequence of its records was made ("none" if not), is open or closed.
Upload(form, state, response, cause) ==
    [form |-> form, state |-> state, response |-> response, cause |-> cause,
     admitted |-> 0, done |-> 0, examples |-> "none"]

\* The clock of the pipeline: one tick per admission and per job done.
Clock ==
    1 + Cardinality({r \in DOMAIN uploads : uploads[r].admitted > 0})
      + Cardinality({r \in DOMAIN uploads : uploads[r].done > 0})

\* The handler that writes the dataset row of a create itself, once the name
\* is found unused.
ReceiveUpload_Creating(form) ==
    LET outcome == post_datasets_upload_form(read_only, Session, form) IN
    /\ uploads' = Append(uploads,
                         Upload(form,
                                IF outcome.response = None THEN "RECEIVED"
                                ELSE IF outcome.response[1].status = 500 THEN "ERROR"
                                ELSE "REJECTED",
                                outcome.response, outcome.cause))
    /\ datasets' = IF outcome.response = None
                      /\ _parse_form_data(form).value.action = "create"
                   THEN Append(datasets, _parse_form_data(form).value.name)
                   ELSE datasets
    /\ UNCHANGED <<versions, examples, revisions, download, read_only, maxsize, queue,
                   transaction, serviceVars>>

\* The handler runs up to the read of the file.
ReceiveUpload(form) ==
    LET outcome == post_datasets_upload_form(read_only, Session, form) IN
    /\ uploads' = Append(uploads,
                         Upload(form,
                                IF outcome.response = None THEN "RECEIVED"
                                ELSE IF outcome.response[1].status = 500 THEN "ERROR"
                                ELSE "REJECTED",
                                outcome.response, outcome.cause))
    /\ UNCHANGED <<storeVars, download, read_only, maxsize, queue, transaction, serviceVars>>

\* The handler that answers an admitted upload only when the worker is done
\* with its job.
ValidateAndEnqueue_Awaiting(r) ==
    LET parsed == _parse_form_data(uploads[r].form).value
        processed == post_datasets_upload_file(parsed)
        enqueued == post_datasets_upload_enqueue(
                        queue, Job(r, parsed, processed.value.examples))
    IN
    /\ uploads[r].state = "RECEIVED"
    /\ IF processed.raised \in ValueErrors
       THEN /\ uploads' = [uploads EXCEPT ![r] =
                   Upload(@.form, "REJECTED",
                          Some(Response(422, processed.message, <<>>)), processed.raised)]
            /\ UNCHANGED queue
       ELSE IF processed.raised # ""
       THEN /\ uploads' = [uploads EXCEPT ![r] =
                   Upload(@.form, "ERROR", Unhandled(processed.raised).response,
                          processed.raised)]
            /\ UNCHANGED queue
       ELSE /\ uploads' = [uploads EXCEPT ![r] =
                   [Upload(@.form,
                           IF enqueued.response.status = 200 THEN "ENQUEUED"
                           ELSE "REJECTED",
                           IF enqueued.response.status = 200 THEN None
                           ELSE Some(enqueued.response),
                           enqueued.cause)
                    EXCEPT !.admitted = IF enqueued.response.status = 200 THEN Clock
                                        ELSE 0,
                           !.examples = enqueued.examples]]
            /\ queue' = enqueued.queue
    /\ UNCHANGED <<storeVars, download, read_only, maxsize, transaction, serviceVars>>

\* The handler decodes the file, checks the keys and submits the job.
ValidateAndEnqueue(r) ==
    LET parsed == _parse_form_data(uploads[r].form).value
        processed == post_datasets_upload_file(parsed)
        enqueued == post_datasets_upload_enqueue(
                        queue, Job(r, parsed, processed.value.examples))
    IN
    /\ uploads[r].state = "RECEIVED"
    /\ IF processed.raised \in ValueErrors
       THEN /\ uploads' = [uploads EXCEPT ![r] =
                   Upload(@.form, "REJECTED",
                          Some(Response(422, processed.message, <<>>)), processed.raised)]
            /\ UNCHANGED queue
       ELSE IF processed.raised # ""
       THEN /\ uploads' = [uploads EXCEPT ![r] =
                   Upload(@.form, "ERROR", Unhandled(processed.raised).response,
                          processed.raised)]
            /\ UNCHANGED queue
       ELSE /\ uploads' = [uploads EXCEPT ![r] =
                   [Upload(@.form,
                           IF enqueued.response.status = 200 THEN "ENQUEUED"
                           ELSE "REJECTED",
                           Some(enqueued.response), enqueued.cause)
                    EXCEPT !.admitted = IF enqueued.response.status = 200 THEN Clock
                                        ELSE 0,
                           !.examples = enqueued.examples]]
            /\ queue' = enqueued.queue
    /\ UNCHANGED <<storeVars, download, read_only, maxsize, transaction, serviceVars>>

(***************************************************************************)
(* Background worker (design document, section 4.4): add_dataset_examples. *)
(***************************************************************************)
Restrict(record, keys) == [k \in keys \cap DOMAIN record |-> record[k]]

\* The id of the dataset of that name.
DatasetNamed(name) == CHOOSE d \in DatasetIds : datasets[d] = name

\* The payloads of the revisions of a job, one per record.
ExamplePayloads(job) ==
    [i \in DOMAIN job.examples |->
        [input |-> Restrict(job.examples[i], job.input_keys),
         output |-> Restrict(job.examples[i], job.output_keys),
         metadata_ |-> Restrict(job.examples[i], job.metadata_keys)]]

\* A create of a name in use and an append to an unknown dataset fail.
JobAccepted(job) == (job.action = "create") # (job.name \in Range(datasets))

\* The transaction with the first decoded record taken for a header line.
insert_dataset_examples_SkipFirst(job) ==
    LET exists == job.name \in Range(datasets)
        d == IF exists THEN DatasetNamed(job.name) ELSE Len(datasets) + 1
        creates == Tail(ExamplePayloads(job))
    IN
    IF JobAccepted(job)
    THEN /\ datasets' = IF exists THEN datasets ELSE Append(datasets, job.name)
         /\ CommitVersion(d, job.upload, creates, [e \in {} |-> "PATCH"])
         /\ uploads' = [uploads EXCEPT ![job.upload].state = "APPLIED",
                                       ![job.upload].done = Clock]
    ELSE /\ UNCHANGED storeVars
         /\ uploads' = [uploads EXCEPT ![job.upload].state = "FAILED",
                                       ![job.upload].done = Clock]

\* What the transaction of a job commits: a create makes the dataset, an
\* append finds it; one version is allocated and one CREATE revision is
\* appended per record. A job that fails writes nothing.
insert_dataset_examples(job) ==
    LET exists == job.name \in Range(datasets)
        d == IF exists THEN DatasetNamed(job.name) ELSE Len(datasets) + 1
        creates == ExamplePayloads(job)
    IN
    IF JobAccepted(job)
    THEN /\ datasets' = IF exists THEN datasets ELSE Append(datasets, job.name)
         /\ CommitVersion(d, job.upload, creates, [e \in {} |-> "PATCH"])
         /\ uploads' = [uploads EXCEPT ![job.upload].state = "APPLIED",
                                       ![job.upload].done = Clock]
    ELSE /\ UNCHANGED storeVars
         /\ uploads' = [uploads EXCEPT ![job.upload].state = "FAILED",
                                       ![job.upload].done = Clock]

\* The worker takes the oldest job and applies it in one transaction.
add_dataset_examples ==
    /\ queue # <<>>
    /\ transaction = None
    /\ queue' = Tail(queue)
    /\ insert_dataset_examples(Head(queue))
    /\ UNCHANGED <<download, read_only, maxsize, transaction, serviceVars>>

\* The same transaction row by row. The worker takes the oldest job, opens a
\* transaction and writes the dataset row of a create and the version row;
\* it then writes one example with its revision per step, and commits when
\* every record is written. `session` is the tables as the transaction has
\* them; nothing of it is in the committed tables before the commit.
add_dataset_examples_begin ==
    LET job == Head(queue)
        exists == job.name \in Range(datasets)
        d == IF exists THEN DatasetNamed(job.name) ELSE Len(datasets) + 1
    IN
    /\ queue # <<>>
    /\ transaction = None
    /\ queue' = Tail(queue)
    /\ transaction' =
           Some([job |-> job, written |-> 0,
                 session |->
                     IF JobAccepted(job)
                     THEN [datasets |-> IF exists THEN datasets
                                        ELSE Append(datasets, job.name),
                           versions |-> Append(versions, [dataset_id |-> d,
                                                          origin |-> job.upload]),
                           examples |-> examples, revisions |-> revisions]
                     ELSE [datasets |-> datasets, versions |-> versions,
                           examples |-> examples, revisions |-> revisions]])
    /\ UNCHANGED <<storeVars, download, read_only, maxsize, uploads, serviceVars>>

add_dataset_examples_flush ==
    /\ transaction # None
    /\ LET t == transaction[1]
           v == Len(t.session.versions)
           e == Len(t.session.examples) + 1
       IN
       /\ JobAccepted(t.job)
       /\ t.written < Len(t.job.examples)
       /\ transaction' =
              Some([t EXCEPT
                      !.written = @ + 1,
                      !.session.examples = Append(@, t.session.versions[v].dataset_id),
                      !.session.revisions =
                          @ \cup {Revision(e, v, "CREATE",
                                           ExamplePayloads(t.job)[t.written + 1])}])
    /\ UNCHANGED <<storeVars, download, read_only, maxsize, queue, uploads, serviceVars>>

add_dataset_examples_commit ==
    /\ transaction # None
    /\ JobAccepted(transaction[1].job)
          => transaction[1].written = Len(transaction[1].job.examples)
    /\ insert_dataset_examples(transaction[1].job)
    /\ transaction' = None
    /\ UNCHANGED <<download, read_only, maxsize, queue, serviceVars>>

(***************************************************************************)
(* The uploads the model sends.                                            *)
(***************************************************************************)
Table == <<<<"q", "a", "tag">>, <<"q1", "a1", "t1">>, <<"q2", "a2", "t2">>>>
CsvFile == Content("identity", "csv", Table)
GzipCsvFile == Content("gzip", "csv", Table)
DeflateCsvFile == Content("deflate", "csv", Table)
ArrowFile == Content("identity", "arrow", Table)
DuplicateHeaderCsvFile ==
    Content("identity", "csv", <<<<"q", "a", "q", "a">>, <<"q1", "a1", "q2", "a2">>>>)
EmptyCsvFile == Content("identity", "csv", <<>>)
BlankHeaderCsvFile == Content("identity", "csv", <<<<>>, <<"q1", "a1", "t1">>>>)

\* "TEXT/CSV", "GZIP", "image/png", "br"
UpperCSV == <<84, 69, 88, 84, 47, 67, 83, 86>>
UpperGZIP == <<71, 90, 73, 80>>
ImagePng == <<105, 109, 97, 103, 101, 47, 112, 110, 103>>
Brotli == <<98, 114>>

\* A well-formed upload of the table under the roles q: input, a: output,
\* tag: metadata.
GoodForm(name, action, file) == FormData(Some(name), action, Some(file), {"q"}, {"a"}, {"tag"})
Csv(content_encoding, content) == UploadFile(Some(CSV), content_encoding, content)

UploadForms ==
    { \* accepted by the validation
      GoodForm("a", None, Csv(None, CsvFile)),
      GoodForm("a", Some("create"), Csv(Some(UpperGZIP), GzipCsvFile)),
      GoodForm("a", Some("append"), Csv(Some(DEFLATE), DeflateCsvFile)),
      GoodForm("b", Some("append"), UploadFile(Some(PYARROW), None, ArrowFile)),
      GoodForm("b", Some("create"), UploadFile(Some(UpperCSV), Some(NONE), CsvFile)),
      \* the form
      FormData(None, None, Some(Csv(None, CsvFile)), {"q"}, {"a"}, {"tag"}),
      GoodForm("a", Some("drop"), Csv(None, CsvFile)),
      FormData(Some("a"), None, None, {"q"}, {"a"}, {"tag"}),
      FormData(Some("a"), None, Some(TextField), {"q"}, {"a"}, {"tag"}),
      FormData(Some("a"), None, Some(Csv(None, CsvFile)), {"q"}, {"a", "tag"}, {"tag"}),
      \* the content type and the content encoding
      GoodForm("a", None, UploadFile(Some(ImagePng), None, CsvFile)),
      GoodForm("a", None, UploadFile(None, None, CsvFile)),
      GoodForm("a", None, Csv(Some(Brotli), CsvFile)),
      \* the bytes
      GoodForm("a", None, Csv(Some(GZIP), CsvFile)),
      GoodForm("a", Some("append"), Csv(Some(DEFLATE), GzipCsvFile)),
      GoodForm("a", None, Csv(None, GzipCsvFile)),
      GoodForm("a", None, UploadFile(Some(PYARROW), None, CsvFile)),
      \* the header and the keys
      GoodForm("a", None, Csv(None, DuplicateHeaderCsvFile)),
      GoodForm("a", Some("append"), Csv(None, EmptyCsvFile)),
      GoodForm("a", None, Csv(None, BlankHeaderCsvFile)),
      FormData(Some("a"), None, Some(Csv(None, CsvFile)), {"q", "x"}, {"a"}, {}) }

(***************************************************************************)
(* The ingestion pipeline: upload handlers, admission queue, worker.       *)
(***************************************************************************)
Init ==
    /\ datasets = <<>>
    /\ versions = <<>>
    /\ examples = <<>>
    /\ revisions = {}
    /\ download = None
    /\ read_only \in BOOLEAN
    /\ maxsize \in 1..MaxQueue
    /\ queue = <<>>
    /\ transaction = None
    /\ uploads = <<>>
    /\ InitServices

Next ==
    \/ \E form \in UploadForms : Len(uploads) < MaxUploads /\ ReceiveUpload(form)
    \/ \E r \in DOMAIN uploads : ValidateAndEnqueue(r)
    \/ add_dataset_examples

Spec == Init /\ [][Next]_vars

(***************************************************************************)
(* The pipeline under uploads of one file with every choice of role keys.  *)
(***************************************************************************)
\* The names a form may request under a role: two columns of the file and a
\* name the file has no column for.
RoleKeys == {"q", "a", "x"}
\* The number of upload requests the server receives with chosen role keys.
MaxRoleUploads == 1

RoleForms ==
    {FormData(Some("a"), None, Some(Csv(None, CsvFile)), i, o, m) :
        i \in SUBSET RoleKeys, o \in SUBSET RoleKeys, m \in SUBSET RoleKeys}

InitRoles ==
    /\ datasets = <<>>
    /\ versions = <<>>
    /\ examples = <<>>
    /\ revisions = {}
    /\ download = None
    /\ read_only = FALSE
    /\ maxsize = MaxQueue
    /\ queue = <<>>
    /\ transaction = None
    /\ uploads = <<>>
    /\ InitServices

NextRoles ==
    \/ \E form \in RoleForms : Len(uploads) < MaxRoleUploads /\ ReceiveUpload(form)
    \/ \E r \in DOMAIN uploads : ValidateAndEnqueue(r)
    \/ add_dataset_examples

SpecRoles == InitRoles /\ [][NextRoles]_vars

(***************************************************************************)
(* The pipeline under uploads with every declared content type and         *)
(* content encoding.                                                       *)
(***************************************************************************)
\* "Text/Csv", "APPLICATION/X-PANDAS-PYARROW", "IMAGE/PNG", "Gzip",
\* "DEFLATE", "None", "e" with an acute accent, "123", "*/*"
MixedCSV == <<84, 101, 120, 116, 47, 67, 115, 118>>
UpperPYARROW ==
    <<65, 80, 80, 76, 73, 67, 65, 84, 73, 79, 78, 47, 88, 45,
      80, 65, 78, 68, 65, 83, 45, 80, 89, 65, 82, 82, 79, 87>>
UpperImagePng == <<73, 77, 65, 71, 69, 47, 80, 78, 71>>
MixedGZIP == <<71, 122, 105, 112>>
UpperDEFLATE == <<68, 69, 70, 76, 65, 84, 69>>
MixedNONE == <<78, 111, 110, 101>>
NonAscii == <<233>>
Digits == <<49, 50, 51>>
Punctuation == <<42, 47, 42>>

\* The values a file part may declare: the recognised ones in several
\* cases, and values that are recognised in no case.
UnrecognisedValues == {<<>>, NonAscii, Digits, Punctuation, ImagePng, UpperImagePng, Brotli}
DeclaredContentTypes ==
    {None} \cup {Some(v) : v \in {CSV, UpperCSV, MixedCSV, PYARROW, UpperPYARROW}
                                  \cup UnrecognisedValues}
DeclaredContentEncodings ==
    {None} \cup {Some(v) : v \in {NONE, MixedNONE, GZIP, UpperGZIP, MixedGZIP, DEFLATE,
                                  UpperDEFLATE}
                                  \cup UnrecognisedValues}

\* The bytes sent under a header: compressed as the encoding says in lower
\* case, an Arrow stream under the Arrow content type.
BytesFor(content_type, content_encoding) ==
    IF content_type # None /\ lower(content_type[1]) = PYARROW THEN ArrowFile
    ELSE IF content_encoding # None /\ lower(content_encoding[1]) = GZIP THEN GzipCsvFile
    ELSE IF content_encoding # None /\ lower(content_encoding[1]) = DEFLATE THEN DeflateCsvFile
    ELSE CsvFile

HeaderForms ==
    {GoodForm("a", None, UploadFile(t, e, BytesFor(t, e))) :
        t \in DeclaredContentTypes, e \in DeclaredContentEncodings}

NextHeaders ==
    \/ \E form \in HeaderForms : Len(uploads) < MaxRoleUploads /\ ReceiveUpload(form)
    \/ \E r \in DOMAIN uploads : ValidateAndEnqueue(r)
    \/ add_dataset_examples

SpecHeaders == InitRoles /\ [][NextHeaders]_vars

(***************************************************************************)
(* The pipeline under a few uploads of two datasets, three in a row.       *)
(***************************************************************************)
\* The number of upload requests the server receives of these.
MaxFlowUploads == 3

FlowForms ==
    {GoodForm("a", None, Csv(None, CsvFile)),
     GoodForm("a", Some("append"), Csv(Some(DEFLATE), DeflateCsvFile)),
     GoodForm("b", Some("create"), UploadFile(Some(PYARROW), None, ArrowFile)),
     GoodForm("a", None, Csv(None, DuplicateHeaderCsvFile))}

InitFlow ==
    /\ datasets = <<>>
    /\ versions = <<>>
    /\ examples = <<>>
    /\ revisions = {}
    /\ download = None
    /\ read_only = FALSE
    /\ maxsize \in 1..MaxQueue
    /\ queue = <<>>
    /\ transaction = None
    /\ uploads = <<>>
    /\ InitServices

NextFlow ==
    \/ \E form \in FlowForms : Len(uploads) < MaxFlowUploads /\ ReceiveUpload(form)
    \/ \E r \in DOMAIN uploads : ValidateAndEnqueue(r)
    \/ add_dataset_examples

SpecFlow == InitFlow /\ [][NextFlow]_vars

\* The worker is one background task that loops on the queue: while a job
\* waits, the worker's step stays enabled and is eventually taken.
MaxFairUploads == 2

NextFlowFair ==
    \/ \E form \in FlowForms : Len(uploads) < MaxFairUploads /\ ReceiveUpload(form)
    \/ \E r \in DOMAIN uploads : ValidateAndEnqueue(r)
    \/ add_dataset_examples

SpecFlowFair == InitFlow /\ [][NextFlowFair]_vars /\ WF_vars(add_dataset_examples)

(***************************************************************************)
(* Snapshot exports while the worker applies jobs row by row.              *)
(***************************************************************************)
\* The number of upload requests the server receives of these.
MaxReadUploads == 2

ReadForms ==
    {GoodForm("a", None, Csv(None, CsvFile)),
     GoodForm("a", Some("append"), Csv(Some(DEFLATE), DeflateCsvFile))}

NextRead ==
    \/ \E form \in ReadForms : Len(uploads) < MaxReadUploads /\ ReceiveUpload(form)
    \/ \E r \in DOMAIN uploads : ValidateAndEnqueue(r)
    \/ add_dataset_examples_begin
    \/ add_dataset_examples_flush
    \/ add_dataset_examples_commit
    \/ \E p \in DownloadParams : Download(p[1], p[2])
    \/ DownloadReturn

SpecRead == InitFlow /\ [][NextRead]_vars

(***************************************************************************)
(* Round trip: uploads of new datasets, the worker, the snapshot export.   *)
(***************************************************************************)
\* The number of upload requests the server receives of these.
MaxRoundTripUploads == 2

\* A CSV file one of whose columns has the name the export gives its index.
IndexedTable == <<<<"q", "__example_index__">>, <<"q1", "x1">>, <<"q2", "x2">>>>
IndexedGzipCsvFile == Content("gzip", "csv", IndexedTable)

RoundTripForms ==
    {GoodForm("a", None, Csv(None, CsvFile)),
     FormData(Some("b"), Some("create"), Some(Csv(Some(GZIP), IndexedGzipCsvFile)),
              {"q"}, {"__example_index__"}, {})}

NextRoundTrip ==
    \/ \E form \in RoundTripForms :
          Len(uploads) < MaxRoundTripUploads /\ ReceiveUpload(form)
    \/ \E r \in DOMAIN uploads : ValidateAndEnqueue(r)
    \/ add_dataset_examples
    \/ \E p \in DownloadParams : Download(p[1], p[2])
    \/ DownloadReturn

SpecRoundTrip == InitFlow /\ [][NextRoundTrip]_vars

(***************************************************************************)
(* Revision Log Store call by call (design document, section 4.1):         *)
(* createVersion, appendRevision and its batched variant.                  *)
(***************************************************************************)
Kinds == {"CREATE", "PATCH", "DELETE"}

\* The value the most recent createVersion call returned for the dataset.
LatestVersion(d) == IF VersionsOf(d) = {} THEN None ELSE Some(Max(VersionsOf(d)))

\* appendRevision: the revision row it appends, or InvalidState if versionId is
\* not the dataset's most recent version or a PATCH or DELETE names an example
\* with no prior revision.
appendRevision_AnyVersion(datasetId, versionId, exampleId, kind, payload) ==
    IF kind \in Edits /\ ~(exampleId \in ExamplesOf(datasetId) /\ HasRevision(exampleId))
    THEN Raise("InvalidState", <<"no prior revision", exampleId>>)
    ELSE Return(Revision(exampleId, versionId, kind, payload))

appendRevision(datasetId, versionId, exampleId, kind, payload) ==
    IF LatestVersion(datasetId) # Some(versionId)
    THEN Raise("InvalidState", <<"not the most recent version", versionId>>)
    ELSE IF kind \in Edits /\ ~(exampleId \in ExamplesOf(datasetId) /\ HasRevision(exampleId))
    THEN Raise("InvalidState", <<"no prior revision", exampleId>>)
    ELSE Return(Revision(exampleId, versionId, kind, payload))

\* The number of versions the direct callers of the store allocate.
MaxStoreVersions == 2

\* A caller allocates the next version of the dataset.
CreateVersion(d) ==
    /\ d \in DatasetIds
    /\ Len(versions) < MaxStoreVersions
    /\ versions' = Append(versions, [dataset_id |-> d, origin |-> 0])
    /\ UNCHANGED <<datasets, examples, revisions, download, pipelineVars, serviceVars>>

\* How a call ended: the exception it raised ("" if none) and its message.
Ended(raised, message) == [raised |-> raised, message |-> message]

\* A call of the store with its arguments and how it ended, until it returns.
StoreCall(op, datasetId, versionId, tuples, commits, ended) ==
    [op |-> op, datasetId |-> datasetId, versionId |-> versionId, tuples |-> tuples,
     commits |-> commits, raised |-> ended.raised, message |-> ended.message]

\* A single appendRevision call; the example of a CREATE is newly minted. A
\* refused call writes nothing.
AppendRevision(d, versionId, exampleId, kind) ==
    LET appended == appendRevision(d, versionId, exampleId, kind,
                                   IF kind = "DELETE" THEN NoPayload
                                   ELSE Payload(exampleId, versionId))
    IN
    /\ storeCall = None
    /\ d \in DatasetIds
    /\ kind = "CREATE" => exampleId = Len(examples) + 1 /\ Len(examples) < MaxExamples
    /\ IF appended.raised = ""
       THEN /\ revisions' = revisions \cup {appended.value}
            /\ examples' = IF kind = "CREATE" THEN Append(examples, d) ELSE examples
       ELSE UNCHANGED <<examples, revisions>>
    /\ storeCall' = Some(StoreCall("appendRevision", d, versionId, <<<<exampleId, kind>>>>,
                                   TRUE, Ended(appended.raised,
                                               IF appended.raised = "" THEN <<>>
                                               ELSE appended.message)))
    /\ UNCHANGED <<datasets, versions, download, pipelineVars, upsertVars, cacheVars, migrateVars>>

\* The batched variant: tuples of (exampleId, kind) for one versionId, each
\* accepted or refused as a single call would be, committed as a unit. The
\* example of the i-th tuple is minted if the tuple is a CREATE (exampleId 0).
TupleExample(tuples, i) ==
    IF tuples[i][2] = "CREATE"
    THEN Len(examples) + Cardinality({j \in 1..i : tuples[j][2] = "CREATE"})
    ELSE tuples[i][1]

appendRevisions(datasetId, versionId, tuples) ==
    [i \in DOMAIN tuples |->
        appendRevision(datasetId, versionId, TupleExample(tuples, i), tuples[i][2],
                       IF tuples[i][2] = "DELETE" THEN NoPayload
                       ELSE Payload(TupleExample(tuples, i), versionId))]

\* The rows the batch commits: the revisions of all its tuples if every tuple
\* is accepted and the commit of the storage engine succeeds, none otherwise.
appendRevisions_commit_Partial(appended, commits) ==
    {appended[i].value : i \in {j \in DOMAIN appended : appended[j].raised = ""}}

appendRevisions_commit(appended, commits) ==
    IF commits /\ \A i \in DOMAIN appended : appended[i].raised = ""
    THEN {appended[i].value : i \in DOMAIN appended}
    ELSE {}

\* A batched call. It ends with the InvalidState of its first refused tuple
\* (the message names the tuple's position), or with the failure of the commit,
\* which is attempted when no tuple is refused.
AppendRevisions(d, versionId, tuples, commits) ==
    LET appended == appendRevisions(d, versionId, tuples)
        refused == {i \in DOMAIN tuples : appended[i].raised # ""}
        first == CHOOSE i \in refused : \A j \in refused : i <= j
        written == appendRevisions_commit(appended, commits)
        minted == {r \in written : r.revision_kind = "CREATE"}
    IN
    /\ storeCall = None
    /\ d \in DatasetIds
    /\ Len(examples) + Cardinality({i \in DOMAIN tuples : tuples[i][2] = "CREATE"})
          <= MaxExamples
    /\ refused # {} => commits
    /\ revisions' = revisions \cup written
    /\ examples' = examples \o [i \in 1..Cardinality(minted) |-> d]
    /\ storeCall' =
          Some(StoreCall("appendRevisions", d, versionId, tuples, commits,
                         IF refused # {}
                         THEN Ended(appended[first].raised,
                                    appended[first].message \o <<first>>)
                         ELSE IF ~commits THEN Ended("CommitFailed", <<>>)
                         ELSE Ended("", <<>>)))
    /\ UNCHANGED <<datasets, versions, download, pipelineVars, upsertVars, cacheVars, migrateVars>>

\* The call returns to its caller.
StoreReturn ==
    /\ storeCall # None
    /\ storeCall' = None
    /\ UNCHANGED <<storeVars, download, pipelineVars, upsertVars, cacheVars, migrateVars>>

\* The tuples of a batch: an existing example to PATCH or DELETE, or a CREATE.
Tuples ==
    ((1..MaxExamples) \X Edits) \cup {<<0, "CREATE">>}

NextAppend ==
    \/ /\ Len(datasets) < Len(DatasetNames)
       /\ storeCall = None
       /\ CreateDataset(DatasetNames[Len(datasets) + 1])
    \/ \E d \in DatasetIds : storeCall = None /\ CreateVersion(d)
    \/ StoreReturn
    \/ \E d \in DatasetIds, v \in 1..MaxVersions, e \in 1..MaxExamples, kind \in Kinds :
          AppendRevision(d, v, e, kind)
    \/ \E d \in DatasetIds, v \in 1..MaxVersions :
          \E tuples \in [1..Max(BatchSizes) -> Tuples], commits \in BOOLEAN :
              AppendRevisions(d, v, tuples, commits)

SpecAppend == InitLog /\ [][NextAppend]_vars

(***************************************************************************)
(* Conflict-aware upsert: upsert_experiment_evaluation.                    *)
(***************************************************************************)
\* The number of requests of the route.
MaxCalls == 3

\* The request body: the global id of the run, the name of the evaluation
\* and its result.
EvaluationPayload(experiment_run_id, name, label, score) ==
    [experiment_run_id |-> experiment_run_id, name |-> name,
     result |-> [label |-> label, score |-> score],
     metadata |-> ("by" :> label)]

\* values: the row to insert, under the attribute names of the model.
values(experiment_run_id, payload) ==
    [experiment_run_id |-> experiment_run_id, name |-> payload.name,
     label |-> payload.result.label, score |-> payload.result.score,
     metadata_ |-> payload.metadata]

\* set_: the columns to update on a conflict, under the column names of the
\* table: all of values, metadata_ under the name metadata.
set__Nothing(vals) == [k \in {} |-> 0]

set_(vals) ==
    [k \in ((DOMAIN vals) \ {"metadata_"}) \cup {"metadata"} |->
        IF k = "metadata" THEN vals["metadata_"] ELSE vals[k]]

\* The attribute of the model a column of the table is mapped to.
Attribute(column) == IF column = "metadata" THEN "metadata_" ELSE column

\* insert_on_conflict ... DO UPDATE ... RETURNING: the row the statement
\* leaves for the key. A row of the key is updated in the columns of `set`
\* and keeps its id; with no such row the values are inserted under `id`.
insert_on_conflict(table, vals, column_names, set, id) ==
    LET conflicts == {row \in table : \A k \in column_names : row[k] = vals[k]} IN
    IF conflicts = {}
    THEN [k \in (DOMAIN vals) \cup {"id"} |-> IF k = "id" THEN id ELSE vals[k]]
    ELSE LET row == CHOOSE row \in conflicts : TRUE IN
         [k \in DOMAIN row |->
             IF \E column \in DOMAIN set : Attribute(column) = k
             THEN set[CHOOSE column \in DOMAIN set : Attribute(column) = k]
             ELSE row[k]]

\* The statement of the handler and the row it returns.
exp_eval_run_PlainInsert(table, vals, id) ==
    [k \in (DOMAIN vals) \cup {"id"} |-> IF k = "id" THEN id ELSE vals[k]]

exp_eval_run(table, vals, id) ==
    insert_on_conflict(table, vals, {"experiment_run_id", "name"}, set_(vals), id)

\* A request of the route: its payload, where its handler is, the row its
\* statement returned, its response, and its place among the commits.
Call(payload, pc, row, response, order) ==
    [payload |-> payload, pc |-> pc, row |-> row, response |-> response, order |-> order]

\* The rows written by statements whose transaction has not committed yet.
Pending == {calls[c].row[1] : c \in {x \in DOMAIN calls : calls[x].pc = "executed"}}
\* The primary key the table's sequence gives next.
NextId == 1 + Cardinality({row.id : row \in annotations \cup Pending})

\* The handler reads the payload and resolves the run id: 404 for a global id
\* of another type.
ReceiveCall(payload) ==
    /\ calls' = Append(calls,
          IF payload.experiment_run_id[1].type_name # "ExperimentRun"
          THEN Call(payload, "done", None,
                    Some(Response(404, <<"ExperimentRun does not exist">>, <<>>)), 0)
          ELSE Call(payload, "received", None, None, 0))
    /\ UNCHANGED <<datasetVars, cacheVars, migrateVars, annotations>>

\* The statement runs in the transaction of the session. The database lets it
\* run when no uncommitted transaction has written a row of the same key.
Execute(c) ==
    LET vals == values(calls[c].payload.experiment_run_id[1].node_id, calls[c].payload) IN
    /\ calls[c].pc = "received"
    /\ \A row \in Pending :
          ~(row.experiment_run_id = vals.experiment_run_id /\ row.name = vals.name)
    /\ calls' = [calls EXCEPT ![c].pc = "executed",
                              ![c].row = Some(exp_eval_run(annotations, vals, NextId))]
    /\ UNCHANGED <<datasetVars, cacheVars, migrateVars, annotations>>

\* The handler returns the row and the session commits.
Commit(c) ==
    LET row == calls[c].row[1] IN
    /\ calls[c].pc = "executed"
    /\ annotations' = {r \in annotations : r.id # row.id} \cup {row}
    /\ calls' = [calls EXCEPT
          ![c].pc = "done",
          ![c].response = Some(Response(200, <<>>, <<row>>)),
          ![c].order = 1 + Cardinality({x \in DOMAIN calls : calls[x].order > 0})]
    /\ UNCHANGED <<datasetVars, cacheVars, migrateVars>>

\* The payloads sent: two runs, one evaluation name, two results, and a
\* global id that is not a run's.
Payloads ==
    {EvaluationPayload(GlobalID("ExperimentRun", run), "accuracy", result[1], result[2]) :
        run \in {1, 2}, result \in {<<"good", 1>>, <<"bad", 0>>}}
    \cup {EvaluationPayload(GlobalID("Dataset", 1), "accuracy", "good", 1)}

InitUpsert ==
    /\ datasets = <<>>
    /\ versions = <<>>
    /\ examples = <<>>
    /\ revisions = {}
    /\ download = None
    /\ read_only = FALSE
    /\ maxsize = MaxQueue
    /\ queue = <<>>
    /\ transaction = None
    /\ uploads = <<>>
    /\ InitServices

NextUpsert ==
    \/ \E payload \in Payloads : Len(calls) < MaxCalls /\ ReceiveCall(payload)
    \/ \E c \in DOMAIN calls : Execute(c)
    \/ \E c \in DOMAIN calls : Commit(c)

SpecUpsert == InitUpsert /\ [][NextUpsert]_vars

(***************************************************************************)
(* OAuth client TTL cache: _OAuthClientTTLCache.                           *)
(*                                                                         *)
(* Times are whole seconds. get, set and delete are coroutines without an  *)
(* await: each runs to its end at one reading of the clock.               *)
(***************************************************************************)
_MINUTE == 60
_cleanup_interval == 10 * _MINUTE

\* The seconds the clock is followed past a multiple of the cleanup interval,
\* and the cleanup intervals it is followed for.
MaxSeconds == 2
MaxIntervals == 1

CacheValues == {"v1", "v2"}
\* The lifetimes set asks for: none, a second, a second more than the interval.
Expires == {0, 1, _cleanup_interval + 1}

\* self._data.pop(key, None)
pop(data, key) == [k \in DOMAIN data \ {key} |-> data[k]]

\* self._data[key] = (value, expiry)
setitem(data, key, item) ==
    [k \in DOMAIN data \cup {key} |-> IF k = key THEN item ELSE data[k]]

\* _remove_expired_keys that keeps the entries expiring at current_time.
_remove_expired_keys_Strict(data, current_time) ==
    [k \in {key \in DOMAIN data : ~(data[key][2] < current_time)} |-> data[k]]

\* The cache after _remove_expired_keys at current_time.
_remove_expired_keys(data, current_time) ==
    [k \in {key \in DOMAIN data : ~(data[key][2] <= current_time)} |-> data[k]]

\* The cache and the time of the last cleanup after the check that set and
\* delete start with.
_remove_expired_keys_if_cleanup_interval_exceeded ==
    IF now - _last_cleanup_time > _cleanup_interval
    THEN [data |-> _remove_expired_keys(_data, now), last_cleanup_time |-> now]
    ELSE [data |-> _data, last_cleanup_time |-> _last_cleanup_time]

\* get with an entry still returned at the second it expires.
get_AtExpiry(key) ==
    IF key \notin DOMAIN _data
    THEN [value |-> None, data |-> _data]
    ELSE IF now <= _data[key][2]
    THEN [value |-> Some(_data[key][1]), data |-> _data]
    ELSE [value |-> None, data |-> pop(_data, key)]

\* The value get returns and the cache it leaves.
get(key) ==
    IF key \notin DOMAIN _data
    THEN [value |-> None, data |-> _data]
    ELSE IF now < _data[key][2]
    THEN [value |-> Some(_data[key][1]), data |-> _data]
    ELSE [value |-> None, data |-> pop(_data, key)]

\* The cache after set.
set(key, value, expires) ==
    LET cleaned == _remove_expired_keys_if_cleanup_interval_exceeded IN
    [data |-> setitem(cleaned.data, key, <<value, now + expires>>),
     last_cleanup_time |-> cleaned.last_cleanup_time]

\* The cache after delete.
delete(key) ==
    LET cleaned == _remove_expired_keys_if_cleanup_interval_exceeded IN
    [data |-> pop(cleaned.data, key), last_cleanup_time |-> cleaned.last_cleanup_time]

CacheGet(key) ==
    /\ cacheCall = None
    /\ _data' = get(key).data
    /\ cacheCall' = Some([key |-> key, time |-> now, found |-> key \in DOMAIN _data,
                          value |-> get(key).value])
    /\ UNCHANGED <<datasetVars, upsertVars, migrateVars, now, _last_cleanup_time,
                   lastSet>>

\* get returns to its caller.
CacheReturn ==
    /\ cacheCall # None
    /\ cacheCall' = None
    /\ UNCHANGED <<datasetVars, upsertVars, migrateVars, now, _data, _last_cleanup_time,
                   lastSet>>

CacheSet(key, value, expires) ==
    /\ cacheCall = None
    /\ _data' = set(key, value, expires).data
    /\ _last_cleanup_time' = set(key, value, expires).last_cleanup_time
    /\ lastSet' = [lastSet EXCEPT
          ![key] = Some([value |-> value, time |-> now, expires |-> expires])]
    /\ UNCHANGED <<datasetVars, upsertVars, migrateVars, now, cacheCall>>

CacheDelete(key) ==
    /\ cacheCall = None
    /\ _data' = delete(key).data
    /\ _last_cleanup_time' = delete(key).last_cleanup_time
    /\ lastSet' = [lastSet EXCEPT ![key] = None]
    /\ UNCHANGED <<datasetVars, upsertVars, migrateVars, now, cacheCall>>

\* The clock advances between calls, by a second or by a cleanup interval.
Advance(seconds) ==
    /\ cacheCall = None
    /\ IF seconds = 1
       THEN now % _cleanup_interval < MaxSeconds
       ELSE now \div _cleanup_interval < MaxIntervals
    /\ now' = now + seconds
    /\ UNCHANGED <<datasetVars, upsertVars, migrateVars, _data, _last_cleanup_time,
                   lastSet, cacheCall>>

InitCache == InitUpsert

NextCache ==
    \/ \E key \in CacheKeys : CacheGet(key)
    \/ CacheReturn
    \/ \E key \in CacheKeys, value \in CacheValues, expires \in Expires :
          CacheSet(key, value, expires)
    \/ \E key \in CacheKeys : CacheDelete(key)
    \/ \E seconds \in {1, _cleanup_interval} : Advance(seconds)

SpecCache == InitCache /\ [][NextCache]_vars

(***************************************************************************)
(* Database migration: migrate and migrate_in_thread.                     *)
(***************************************************************************)
MaxMigrations == 2

\* The calls of the try block of migrate that reach the database, in order.
Places == <<"engine.connect", "command.upgrade", "engine.dispose">>

\* What they raise: errors of the database and of alembic, and an interrupt,
\* which `except BaseException` catches as well.
Exceptions == {"OperationalError", "CommandError", "KeyboardInterrupt"}

\* raise ... from cause
RaiseFrom(exception, message, cause) ==
    [raised |-> exception, message |-> message, cause |-> cause]

\* bool(error_queue): None is false; a SimpleQueue defines neither __bool__
\* nor __len__ and is true, empty or not.
truth(q) == q # None

\* The except clause of migrate for the exception e: the queue it leaves and
\* whether the call ends raising e or returning.
migrate_except(q, e) ==
    IF truth(q)
    THEN [error_queue |-> Some(Append(q[1], e)), pc |-> "raised"]
    ELSE [error_queue |-> q, pc |-> "returned"]

\* migrate_in_thread from error_queue.get_nowait() on.
migrate_in_thread_result(q) ==
    IF q[1] = <<>> THEN Return(None)
    ELSE RaiseFrom("PhoenixMigrationError",
                   <<"Unable to migrate configured Phoenix DB", Head(q[1])>>,
                   Some(Head(q[1])))

Running(place) == [pc |-> "running", place |-> place, error |-> None]
NoThread == [pc |-> "none", place |-> 0, error |-> None]
Idle == [pc |-> "idle", kind |-> ""]

\* A finished call: who called migrate, whether a queue was given, the
\* exception raised in the try block, how migrate ended (or where it was when
\* the caller went on), the queue it left and how the caller ended.
Migration(kind, outcome) ==
    [kind |-> kind, supplied |-> truth(error_queue), error |-> thread.error,
     ended |-> thread.pc, queued |-> error_queue, outcome |-> outcome]

\* migrate_in_thread makes the queue and starts the thread.
migrate_in_thread_start ==
    /\ migration.pc = "idle"
    /\ Len(migrations) < MaxMigrations
    /\ error_queue' = Some(<<>>)
    /\ thread' = Running(1)
    /\ migration' = [pc |-> "started", kind |-> "migrate_in_thread"]
    /\ UNCHANGED <<datasetVars, upsertVars, cacheVars, migrations>>

\* migrate called directly, with a queue of the caller or with none.
migrate_call(supplied) ==
    /\ migration.pc = "idle"
    /\ Len(migrations) < MaxMigrations
    /\ error_queue' = IF supplied THEN Some(<<>>) ELSE None
    /\ thread' = Running(1)
    /\ migration' = [pc |-> "called", kind |-> "migrate"]
    /\ UNCHANGED <<datasetVars, upsertVars, cacheVars, migrations>>

\* The next call of the try block returns.
migrate_proceed ==
    /\ thread.pc = "running"
    /\ thread' = IF thread.place = Len(Places)
                 THEN [thread EXCEPT !.pc = "returned"]
                 ELSE Running(thread.place + 1)
    /\ UNCHANGED <<datasetVars, upsertVars, cacheVars, error_queue, migration, migrations>>

\* The next call of the try block raises e.
migrate_raise(e) ==
    /\ thread.pc = "running"
    /\ thread' = [thread EXCEPT !.pc = migrate_except(error_queue, e).pc,
                                !.error = Some(e)]
    /\ error_queue' = migrate_except(error_queue, e).error_queue
    /\ UNCHANGED <<datasetVars, upsertVars, cacheVars, migration, migrations>>

\* t.join() without the wait for the thread.
migrate_in_thread_join_NoWait ==
    /\ migration.pc = "started"
    /\ migration' = [migration EXCEPT !.pc = "joined"]
    /\ UNCHANGED <<datasetVars, upsertVars, cacheVars, thread, error_queue, migrations>>

\* t.join() returns when the thread has ended, by return or by exception.
migrate_in_thread_join ==
    /\ migration.pc = "started"
    /\ thread.pc \in {"returned", "raised"}
    /\ migration' = [migration EXCEPT !.pc = "joined"]
    /\ UNCHANGED <<datasetVars, upsertVars, cacheVars, thread, error_queue, migrations>>

\* migrate_in_thread reads the queue and ends.
migrate_in_thread_end ==
    /\ migration.pc = "joined"
    /\ migrations' = Append(migrations,
                            Migration("migrate_in_thread",
                                      migrate_in_thread_result(error_queue)))
    /\ migration' = Idle
    /\ thread' = NoThread
    /\ error_queue' = None
    /\ UNCHANGED <<datasetVars, upsertVars, cacheVars>>

\* The direct call ends: the caller has what migrate returned or raised.
migrate_end ==
    /\ migration.pc = "called"
    /\ thread.pc \in {"returned", "raised"}
    /\ migrations' = Append(migrations,
                            Migration("migrate",
                                      IF thread.pc = "raised"
                                      THEN Raise(thread.error[1], <<>>)
                                      ELSE Return(None)))
    /\ migration' = Idle
    /\ thread' = NoThread
    /\ error_queue' = None
    /\ UNCHANGED <<datasetVars, upsertVars, cacheVars>>

InitMigrate == InitUpsert

NextMigrate ==
    \/ migrate_in_thread_start
    \/ \E supplied \in BOOLEAN : migrate_call(supplied)
    \/ migrate_proceed
    \/ \E e \in Exceptions : migrate_raise(e)
    \/ migrate_in_thread_join
    \/ migrate_in_thread_end
    \/ migrate_end

SpecMigrate == InitMigrate /\ [][NextMigrate]_vars

(***************************************************************************)
(* What the claims speak of, stated from the design document.              *)
(***************************************************************************)
\* The ceilings a snapshot may be asked for: none (latest), every version id
\* of the store, and one below and one above them.
Ceilings == {None} \cup {Some(n) : n \in 0..(Len(versions) + 1)}

RevisionsUpTo(e, asOf) ==
    {r \in revisions :
        r.dataset_example_id = e /\ (asOf # None => r.dataset_version_id <= asOf[1])}

\* The revisions of e with the greatest version id at or below the ceiling.
SelectedRevisions(e, asOf) ==
    {r \in RevisionsUpTo(e, asOf) :
        \A x \in RevisionsUpTo(e, asOf) : x.dataset_version_id <= r.dataset_version_id}

Visible(d, e, asOf) ==
    /\ e \in ExamplesOf(d)
    /\ RevisionsUpTo(e, asOf) # {}
    /\ \A r \in SelectedRevisions(e, asOf) : r.revision_kind # "DELETE"

SnapshotExamples(d, asOf) ==
    {row.dataset_example_id : row \in Range(getSnapshot(d, asOf))}

\* The export that was answered: its dataset, its ceiling, its response.
Exported == download # None /\ download[1].response.status = 200
ExportedDataset == download[1].datasetId[1].node_id
ExportedCeiling ==
    IF download[1].datasetVersionId = None THEN None
    ELSE Some(download[1].datasetVersionId[1].node_id)

\* The session of the state a step leads to.
SessionAfter ==
    [datasets |-> datasets', versions |-> versions',
     examples |-> examples', revisions |-> revisions']

\* C1: once version V of dataset D exists, no later write of the log (a new
\* dataset, a new version with its batch of CREATE, PATCH and DELETE
\* revisions) changes the rows of getSnapshot(D, V): their examples, their
\* content and their example_index.
C1_HistoryPreserved ==
    [][storeVars' # storeVars =>
          \A d \in DatasetIds : \A v \in VersionsOf(d) :
              stmt(SessionAfter, d, Some(v)) = stmt(Session, d, Some(v))]_vars

\* C1 happens: version V was exported with examples, after a later version
\* patched or deleted one of the examples of that export.
C1_Witness ==
    /\ Exported
    /\ ExportedCeiling # None
    /\ ExportedCeiling[1] \in VersionsOf(ExportedDataset)
    /\ \E r \in revisions :
          /\ r.dataset_version_id > ExportedCeiling[1]
          /\ r.revision_kind \in {"PATCH", "DELETE"}
          /\ r.dataset_example_id \in SnapshotExamples(ExportedDataset, ExportedCeiling)

\* C2: an example with a DELETE revision at version Vd is absent from
\* getSnapshot(D, V) for every version V >= Vd of D and present for every
\* version V of D from its CREATE version up to Vd (excluded).
C2_Tombstone ==
    \A r \in revisions : r.revision_kind = "DELETE" =>
        LET e == r.dataset_example_id
            d == examples[e]
            Vc == CHOOSE v \in VersionIds :
                     \E c \in revisions : /\ c.dataset_example_id = e
                                          /\ c.revision_kind = "CREATE"
                                          /\ c.dataset_version_id = v
        IN \A V \in VersionsOf(d) :
              /\ V >= r.dataset_version_id => e \notin SnapshotExamples(d, Some(V))
              /\ (Vc <= V /\ V < r.dataset_version_id) => e \in SnapshotExamples(d, Some(V))

\* C3: getSnapshot(D, asOf) holds an example of D exactly when the example has
\* a revision at or below asOf and the one with the greatest version id is not
\* a DELETE; each example is returned once, with the content of that revision.
C3_SnapshotSelectsLatestRevision ==
    \A d \in DatasetIds : \A asOf \in Ceilings :
        LET snap == getSnapshot(d, asOf)
            returned == {row.dataset_example_id : row \in Range(snap)}
        IN
        /\ returned = {e \in ExampleIds : Visible(d, e, asOf)}
        /\ Len(snap) = Cardinality(returned)
        /\ \A i \in DOMAIN snap :
              \E r \in SelectedRevisions(snap[i].dataset_example_id, asOf) :
                  /\ snap[i].input = r.input
                  /\ snap[i].output = r.output
                  /\ snap[i].metadata_ = r.metadata_
                  /\ snap[i].dataset_version_id = r.dataset_version_id

\* C3 happens: an export at a ceiling returned an example that has an older
\* and a newer revision than the selected one, while another example of the
\* dataset is tombstoned at the ceiling.
C3_Witness ==
    /\ Exported
    /\ ExportedCeiling # None
    /\ \E i \in DOMAIN getSnapshot(ExportedDataset, ExportedCeiling) :
          LET row == getSnapshot(ExportedDataset, ExportedCeiling)[i] IN
          /\ \E r \in revisions : /\ r.dataset_example_id = row.dataset_example_id
                                  /\ r.dataset_version_id < row.dataset_version_id
          /\ \E r \in revisions : /\ r.dataset_example_id = row.dataset_example_id
                                  /\ r.dataset_version_id > ExportedCeiling[1]
    /\ \E e \in ExamplesOf(ExportedDataset) :
          /\ RevisionsUpTo(e, ExportedCeiling) # {}
          /\ ~Visible(ExportedDataset, e, ExportedCeiling)

\* C4: in every snapshot the example_index values of the n returned examples
\* are 0..n-1 in ascending example id order.
C4_DenseExampleIndex ==
    \A d \in DatasetIds : \A asOf \in Ceilings :
        \A i \in DOMAIN getSnapshot(d, asOf) :
            getSnapshot(d, asOf)[i].example_index = i - 1

\* C5: an export of an existing dataset with an explicit version id that is
\* not a version of that dataset is answered 404 (NotFound).
C5_ForeignVersionNotFound ==
    (/\ download # None
     /\ download[1].datasetId # None
     /\ download[1].datasetId[1].type_name = "Dataset"
     /\ download[1].datasetId[1].node_id \in DatasetIds
     /\ download[1].datasetVersionId # None
     /\ download[1].datasetVersionId[1].type_name = "DatasetVersion"
     /\ download[1].datasetVersionId[1].node_id
            \notin VersionsOf(download[1].datasetId[1].node_id))
    => download[1].response.status = 404

\* An upload and the pipeline: its parsed form, whether it was acknowledged
\* as accepted, whether a job of it waits in the queue, whether a version of
\* the store originates from it.
ParsedForm(r) == _parse_form_data(uploads[r].form)
Answered(r) == uploads[r].response # None
Admitted(r) == Answered(r) /\ uploads[r].response[1].status = 200
Enqueued(r) == \E i \in DOMAIN queue : queue[i].upload = r
Persisted(r) ==
    \/ \E v \in VersionIds : versions[v].origin = r
    \/ \E x \in revisions : versions[x.dataset_version_id].origin = r
CreateOf(r, name) ==
    /\ ParsedForm(r).raised = ""
    /\ ParsedForm(r).value.action = "create"
    /\ ParsedForm(r).value.name = name

\* C6: an upload that passed validation and is submitted while the queue is
\* at capacity is answered in that step with 429 (Capacity), the queue and
\* the store are left as they were, and at no later time is a job of it in
\* the queue or a version or revision of it in the store.
C6_CapacityRejection ==
    /\ [][\A r \in DOMAIN uploads :
            (/\ uploads[r].state = "RECEIVED"
             /\ uploads'[r] # uploads[r]
             /\ Len(queue) >= maxsize
             /\ post_datasets_upload_file(ParsedForm(r).value).raised = "")
            => /\ uploads'[r].state = "REJECTED"
               /\ uploads'[r].response = Some(Response(429, <<>>, <<>>))
               /\ queue' = queue
               /\ storeVars' = storeVars]_vars
    /\ [](\A r \in DOMAIN uploads :
            uploads[r].cause = "QueueFull" => ~Enqueued(r) /\ ~Persisted(r))

\* C6 happens: an upload was turned away at the full queue and the worker
\* has since applied the job that filled the queue.
C6_Witness ==
    \E r, other \in DOMAIN uploads :
        /\ uploads[r].cause = "QueueFull"
        /\ uploads[r].response[1].status = 429
        /\ uploads[other].state = "APPLIED"
        /\ queue = <<>>

\* The failures of the validation stage: an exception of the content type or
\* encoding lookup, of the decompression, of the decoding, of the header and
\* key checks, or the name check of a create.
ValidationFailures ==
    {"ValueError", "UnicodeDecodeError", "RecursionError", "BadGzipFile", "zlib.error",
     "Dataset already exists"}

\* C7: an upload that fails in the validation stage ends REJECTED with a 422
\* (Malformed or Conflict), nothing of it enqueued or persisted.
C7_ValidationFailureRejected ==
    \A r \in DOMAIN uploads :
        (Answered(r) /\ uploads[r].cause \in ValidationFailures)
        => /\ uploads[r].state = "REJECTED"
           /\ uploads[r].response[1].status = 422
           /\ ~Enqueued(r)
           /\ ~Persisted(r)

\* C8: no two create uploads of one name are both acknowledged as accepted,
\* and no accepted create fails at the worker.
C8_CreateNameStillUnused ==
    /\ \A r1, r2 \in DOMAIN uploads :
          (r1 # r2 /\ Admitted(r1) /\ Admitted(r2))
          => ~(CreateOf(r1, ParsedForm(r1).value.name)
               /\ CreateOf(r2, ParsedForm(r1).value.name))
    /\ \A r \in DOMAIN uploads :
          (Admitted(r) /\ ParsedForm(r).value.action = "create")
          => uploads[r].state # "FAILED"

\* C9: a well-formed upload is rejected at the name check, with 422 "Dataset
\* already exists", exactly when its action is create and a dataset of its
\* name is in the store (so an append to an existing dataset is not); an
\* upload so rejected is never enqueued nor persisted.
C9_CreateOfExistingNameRejected ==
    /\ [][Len(uploads') = Len(uploads) + 1 =>
            LET u == uploads'[Len(uploads')]
                parsed == _parse_form_data(u.form)
            IN (~read_only /\ parsed.raised = "")
               => ((/\ parsed.value.action = "create"
                    /\ parsed.value.name \in Range(datasets))
                   <=> (/\ u.state = "REJECTED"
                        /\ u.response = Some(Response(422, <<"Dataset already exists",
                                                            parsed.value.name>>, <<>>))))]_vars
    /\ [](\A r \in DOMAIN uploads :
            uploads[r].cause = "Dataset already exists"
            => uploads[r].state = "REJECTED" /\ ~Enqueued(r) /\ ~Persisted(r))

\* C9 happens: a create was rejected for the name of a dataset that an
\* earlier upload had created.
C9_Witness ==
    \E r, first \in DOMAIN uploads :
        /\ uploads[r].cause = "Dataset already exists"
        /\ uploads[first].state = "APPLIED"
        /\ CreateOf(first, ParsedForm(r).value.name)

\* The header row of a CSV upload that reached the header parse (None if the
\* text has no line), and whether the upload reached it.
Decompressed(r) ==
    LET file == ParsedForm(r).value.file
        encoding == FileContentEncoding(file.content_encoding).value
    IN IF encoding = GZIP THEN gzip_decompress(file.content)
       ELSE IF encoding = DEFLATE THEN zlib_decompress(file.content)
       ELSE Return(file.content)
CsvText(r) == decode(Decompressed(r).value)
ReachedHeader(r) ==
    /\ uploads[r].state # "RECEIVED"
    /\ uploads[r].cause \notin {"read_only", "Dataset already exists"}
    /\ ParsedForm(r).raised = ""
    /\ FileContentType(ParsedForm(r).value.file.content_type) = Return(CSV)
    /\ FileContentEncoding(ParsedForm(r).value.file.content_encoding).raised = ""
    /\ Decompressed(r).raised = ""
    /\ CsvText(r).raised = ""
Header(r) == fieldnames(CsvText(r).value)
Repeated(names) == {names[i] : i \in {j \in DOMAIN names : Count(names, names[j]) > 1}}

\* C10: a CSV upload whose header repeats a column name is rejected with a
\* 422 that reports one of the repeated names, one with no header row is
\* rejected with a 422; neither is enqueued, no revision of them is written.
C10_CsvHeaderRejected ==
    \A r \in DOMAIN uploads : ReachedHeader(r) =>
        /\ (Header(r) = None \/ Header(r) = Some(<<>>))
           => /\ uploads[r].state = "REJECTED"
              /\ uploads[r].response[1].status = 422
              /\ ~Enqueued(r) /\ ~Persisted(r)
        /\ (Header(r) # None /\ Repeated(Header(r)[1]) # {})
           => /\ uploads[r].state = "REJECTED"
              /\ uploads[r].response[1].status = 422
              /\ uploads[r].response[1].content[1] = "Duplicated column header in CSV file"
              /\ uploads[r].response[1].content[2] \in Repeated(Header(r)[1])
              /\ ~Enqueued(r) /\ ~Persisted(r)

\* C10 happens: one upload was rejected for a repeated column name and one
\* for a missing header row.
C10_Witness ==
    \E r, s \in DOMAIN uploads :
        /\ ReachedHeader(r) /\ Header(r) # None /\ Repeated(Header(r)[1]) # {}
        /\ ReachedHeader(s) /\ Header(s) = None
        /\ uploads[s].response[1].content = <<"Missing CSV column header">>
\* What section 4.3 asks of the role keys of a form against the columns of
\* its file: every requested column discovered, the three sets disjoint.
RolesValid(form) ==
    LET columns == Range(form.file[1].content.lines[1]) IN
    /\ form.input_keys \cup form.output_keys \cup form.metadata_keys \subseteq columns
    /\ form.input_keys \cap form.output_keys = {}
    /\ form.input_keys \cap form.metadata_keys = {}
    /\ form.output_keys \cap form.metadata_keys = {}

\* C11: an answered upload of a decodable file under a free name passed the
\* validation (200, or 429 at a full queue) exactly when its role keys are
\* all columns of the file and pairwise disjoint; any other is REJECTED with
\* 422 (Malformed), nothing of it enqueued or persisted.
C11_RoleKeysValidated ==
    \A r \in DOMAIN uploads :
        (Answered(r) /\ uploads[r].cause \notin {"read_only", "Dataset already exists"})
        => /\ RolesValid(uploads[r].form) <=> uploads[r].response[1].status \in {200, 429}
           /\ ~RolesValid(uploads[r].form)
              => /\ uploads[r].state = "REJECTED"
                 /\ uploads[r].response[1].status = 422
                 /\ ~Enqueued(r)
                 /\ ~Persisted(r)

\* C11 happens: an upload requesting a column of the file under one role and
\* nothing else was applied by the worker.
C11_Witness ==
    \E r \in DOMAIN uploads :
        /\ uploads[r].state = "APPLIED"
        /\ uploads[r].form.output_keys = {"q"}
        /\ uploads[r].form.input_keys = {}
\* The headers of an upload the handler took past the form and the name
\* check, and whether a declared value is a recognised one in some case.
Handled(r) ==
    /\ uploads[r].state # "RECEIVED"
    /\ uploads[r].cause \notin {"read_only", "Dataset already exists"}
    /\ ParsedForm(r).raised = ""
DeclaredType(r) == ParsedForm(r).value.file.content_type
DeclaredEncoding(r) == ParsedForm(r).value.file.content_encoding
Recognised(members, v) == v # None /\ lower(v[1]) \in members
\* The upload was rejected with a 422 whose text is `text` and names v.
RejectedNaming(r, text, v) ==
    /\ uploads[r].state = "REJECTED"
    /\ uploads[r].response[1].status = 422
    /\ uploads[r].response[1].content[1] = text
    /\ uploads[r].response[1].content[2] # None
    /\ lower(uploads[r].response[1].content[2][1]) = lower(v[1])
    /\ ~Enqueued(r)
    /\ ~Persisted(r)

\* C12: an upload declaring a content type that is not text/csv or the Arrow
\* type in any letter case, or (for a CSV) a content encoding that is not
\* none, gzip or deflate in any letter case, is rejected with a 422
\* (Malformed) that names the value.
C12_UnrecognisedValueRejected ==
    \A r \in DOMAIN uploads : Handled(r) =>
        /\ (DeclaredType(r) # None /\ ~Recognised({CSV, PYARROW}, DeclaredType(r)))
           => RejectedNaming(r, "Invalid file content type", DeclaredType(r))
        /\ (/\ Recognised({CSV}, DeclaredType(r))
            /\ DeclaredEncoding(r) # None
            /\ ~Recognised({NONE, GZIP, DEFLATE}, DeclaredEncoding(r)))
           => RejectedNaming(r, "Invalid file content encoding", DeclaredEncoding(r))

\* C13: a declared content type or content encoding that is a recognised
\* value in upper, lower or mixed case resolves to the member of its
\* lower-case spelling, an absent content encoding resolves to none, and an
\* upload so declared (its bytes fitting the headers) passes the validation.
C13_CaseInsensitiveResolution ==
    \A r \in DOMAIN uploads : Handled(r) =>
        LET t == DeclaredType(r)
            e == DeclaredEncoding(r)
        IN
        /\ Recognised({CSV, PYARROW}, t) => FileContentType(t) = Return(lower(t[1]))
        /\ e = None => FileContentEncoding(e) = Return(NONE)
        /\ Recognised({NONE, GZIP, DEFLATE}, e)
           => FileContentEncoding(e) = Return(lower(e[1]))
        /\ (/\ Recognised({CSV, PYARROW}, t)
            /\ \/ Recognised({PYARROW}, t)
               \/ e = None
               \/ Recognised({NONE, GZIP, DEFLATE}, e))
           => /\ uploads[r].response[1].status = 200
              /\ uploads[r].state # "REJECTED"

\* C13 happens: an upload declared as "Text/Csv" with content encoding
\* "DEFLATE" was applied by the worker.
C13_Witness ==
    \E r \in DOMAIN uploads :
        /\ uploads[r].state = "APPLIED"
        /\ DeclaredType(r) = Some(MixedCSV)
        /\ DeclaredEncoding(r) = Some(UpperDEFLATE)

\* The class of a rejection in the taxonomy of section 7, and the part of the
\* response a client can read without the message text: the status code.
RejectionClass(r) ==
    IF uploads[r].cause = "QueueFull" THEN "Capacity"
    ELSE IF uploads[r].cause = "Dataset already exists" THEN "Conflict"
    ELSE IF uploads[r].cause \in ValueErrors THEN "Malformed"
    ELSE "none"
ReportedKind(r) == uploads[r].response[1].status

\* C14: two rejected uploads of different classes (Malformed, Conflict,
\* Capacity) are reported with different kinds.
C14_KindsDistinguishable ==
    \A r1, r2 \in DOMAIN uploads :
        (/\ uploads[r1].state = "REJECTED" /\ RejectionClass(r1) # "none"
         /\ uploads[r2].state = "REJECTED" /\ RejectionClass(r2) # "none"
         /\ RejectionClass(r1) # RejectionClass(r2))
        => ReportedKind(r1) # ReportedKind(r2)
\* The key of a row or of the values of a call, the calls that committed,
\* and whether a row holds the values a call sent.
KeyOf(row) == <<row.experiment_run_id, row.name>>
Committed == {c \in DOMAIN calls : calls[c].order > 0}
CallKey(c) == <<calls[c].payload.experiment_run_id[1].node_id, calls[c].payload.name>>
HoldsValuesOf(row, c) ==
    /\ KeyOf(row) = CallKey(c)
    /\ row.label = calls[c].payload.result.label
    /\ row.score = calls[c].payload.result.score
    /\ row.metadata_ = calls[c].payload.metadata

\* C15: the table holds exactly one row for every key an upsert has written
\* and no other row, that row holds the values of the upsert of the key that
\* committed last, and each upsert returns the row its commit stores.
C15_OneRowLastWriterWins ==
    /\ [](/\ {KeyOf(row) : row \in annotations} = {CallKey(c) : c \in Committed}
          /\ \A c \in Committed :
                (\A x \in Committed : CallKey(x) = CallKey(c) => calls[x].order <= calls[c].order)
                => /\ Cardinality({row \in annotations : KeyOf(row) = CallKey(c)}) = 1
                   /\ \A row \in annotations : KeyOf(row) = CallKey(c) => HoldsValuesOf(row, c))
    /\ [][\A c \in DOMAIN calls :
            (calls[c].pc = "executed" /\ calls'[c].pc = "done")
            => /\ calls'[c].response[1].status = 200
               /\ calls'[c].response[1].records[1] \in annotations'
               /\ KeyOf(calls'[c].response[1].records[1]) = CallKey(c)]_vars

\* C15 happens: three upserts of one key committed, the last with a result
\* other than the one before it.
C15_Witness ==
    \E c1, c2, c3 \in Committed :
        /\ CallKey(c1) = CallKey(c2) /\ CallKey(c2) = CallKey(c3)
        /\ calls[c1].order < calls[c2].order /\ calls[c2].order < calls[c3].order
        /\ calls[c2].payload.result # calls[c3].payload.result

\* C16: when two callers have upserted one key, in whatever order their
\* statements and commits were interleaved, the table holds one row for the
\* key and the row holds the values of one of the two, all of them.
C16_RacingUpsertsLeaveOneRow ==
    \A c1, c2 \in Committed :
        (c1 # c2 /\ CallKey(c1) = CallKey(c2)
         /\ \A x \in DOMAIN calls : CallKey(x) = CallKey(c1) => x \in {c1, c2})
        => /\ Cardinality({row \in annotations : KeyOf(row) = CallKey(c1)}) = 1
           /\ \A row \in annotations : KeyOf(row) = CallKey(c1)
                 => HoldsValuesOf(row, c1) \/ HoldsValuesOf(row, c2)

\* C16 happens: of two callers of one key with different results, the one
\* whose request came first committed last.
C16_Witness ==
    \E c1, c2 \in Committed :
        /\ c1 < c2
        /\ CallKey(c1) = CallKey(c2)
        /\ calls[c1].payload.result # calls[c2].payload.result
        /\ calls[c1].order > calls[c2].order
\* The version the worker allocated for the job of an applied upload.
VersionOf(r) == CHOOSE v \in VersionIds : versions[v].origin = r

\* C17: of two jobs, the one admitted first is applied or failed by the
\* worker before the other, and if both were applied to one dataset its
\* version is the smaller.
C17_AppliedInAdmissionOrder ==
    \A A, B \in DOMAIN uploads :
        (/\ uploads[A].admitted > 0
         /\ uploads[B].admitted > 0
         /\ uploads[A].admitted < uploads[B].admitted)
        => /\ uploads[B].done > 0
              => uploads[A].done > 0 /\ uploads[A].done < uploads[B].done
           /\ (/\ uploads[A].state = "APPLIED"
               /\ uploads[B].state = "APPLIED"
               /\ versions[VersionOf(A)].dataset_id = versions[VersionOf(B)].dataset_id)
              => VersionOf(A) < VersionOf(B)

\* C17 happens: two jobs of one dataset waited in the queue together and both
\* were applied.
C17_Witness ==
    \E A, B \in DOMAIN uploads :
        /\ uploads[A].state = "APPLIED"
        /\ uploads[B].state = "APPLIED"
        /\ uploads[A].admitted < uploads[B].admitted
        /\ uploads[B].admitted < uploads[A].done
        /\ versions[VersionOf(A)].dataset_id = versions[VersionOf(B)].dataset_id

\* The revisions a version has once its job is applied: those of the log for
\* a committed version, one per record of the job for the version of the
\* worker's open transaction.
InFlight ==
    IF transaction # None /\ JobAccepted(transaction[1].job)
    THEN {Len(versions) + 1} ELSE {}
RevisionCount(v) ==
    IF v \in InFlight THEN Len(transaction[1].job.examples)
    ELSE Cardinality({r \in revisions : r.dataset_version_id = v})

\* The rows a snapshot read of the dataset at the ceiling takes from version v.
Observed(d, asOf, v) ==
    LET rows == stmt(Session, d, asOf)
    IN {i \in DOMAIN rows : rows[i].dataset_version_id = v}

\* The export request reads the dataset in this step.
Reads(p, d) ==
    /\ Download(p[1], p[2])
    /\ p[1] = GlobalID("Dataset", d)
    /\ p[2] = None \/ p[2][1].type_name = "DatasetVersion"

Ceiling(p) == IF p[2] = None THEN None ELSE Some(p[2][1].node_id)

\* C18: a snapshot read taken at any point of the worker's transaction
\* observes none or all of the revisions of the job's version, and of every
\* version.
C18_VersionReadWholeOrNotAtAll ==
    [][\A p \in DownloadParams : \A d \in 1..(Len(datasets) + 1) :
          Reads(p, d)
          => \A v \in VersionIds \cup InFlight :
                Cardinality(Observed(d, Ceiling(p), v)) \in {0, RevisionCount(v)}]_vars

\* C18 happens: an export is answered while the worker's transaction has
\* written some and not all of the revisions of its version, at a ceiling that
\* admits the version.
C18_Witness ==
    /\ download # None
    /\ download[1].response.status = 200
    /\ download[1].datasetVersionId \in {None, GlobalID("DatasetVersion", Len(versions) + 1)}
    /\ transaction # None
    /\ transaction[1].written > 0
    /\ transaction[1].written < Len(transaction[1].job.examples)

\* The version ids createVersion has returned for the dataset: those its
\* revisions were appended with.
ReturnedIds(d) ==
    {r.dataset_version_id : r \in {x \in revisions : examples[x.dataset_example_id] = d}}

\* The version id a step's new revisions of the dataset were appended with.
NewlyReturnedIds(d) ==
    {r.dataset_version_id :
        r \in {x \in revisions' \ revisions : examples'[x.dataset_example_id] = d}}

\* C19: the version id createVersion returns for a dataset is greater than
\* every id it returned for that dataset before, so none is returned twice,
\* whatever the order in which jobs of one or several datasets are applied.
C19_VersionIdsStrictlyIncrease ==
    [][\A d \in DOMAIN datasets' :
          \A new \in NewlyReturnedIds(d) :
              \A old \in IF d \in DatasetIds THEN ReturnedIds(d) ELSE {} :
                  old < new]_vars

\* C19 happens: a dataset got a version, another dataset got the next one,
\* and the first dataset the one after.
C19_Witness ==
    /\ Len(versions) = 3
    /\ versions[1].dataset_id = versions[3].dataset_id
    /\ versions[2].dataset_id # versions[1].dataset_id
    /\ \A d \in DatasetIds : ReturnedIds(d) # {}

\* C20: in every state of the log that accepted single and batched
\* appendRevision calls lead to, an example has at most one revision at a
\* version.
C20_OneRevisionPerExampleAndVersion ==
    \A r1, r2 \in revisions :
        (/\ r1.dataset_example_id = r2.dataset_example_id
         /\ r1.dataset_version_id = r2.dataset_version_id)
        => r1 = r2

\* The log and its tables are after the step what they were before it.
LogUnchanged == UNCHANGED <<datasets, versions, examples, revisions>>

\* The step is the store taking a call of that operation.
Calls(op) == storeCall = None /\ storeCall' # None /\ storeCall'[1].op = op

\* C21: an appendRevision call whose PATCH or DELETE names an example with no
\* prior revision, or whose versionId is not the one the most recent
\* createVersion returned for the dataset, fails with InvalidState and leaves
\* the revision log as it was.
C21_InvalidStateLeavesLogUnchanged ==
    [][Calls("appendRevision")
       => LET d == storeCall'[1].datasetId
              v == storeCall'[1].versionId
              e == storeCall'[1].tuples[1][1]
              kind == storeCall'[1].tuples[1][2]
          IN (\/ kind \in {"PATCH", "DELETE"}
                 /\ ~\E r \in revisions : r.dataset_example_id = e
              \/ VersionsOf(d) = {}
              \/ \E later \in VersionsOf(d) : later > v
              \/ v \notin VersionsOf(d))
             => /\ storeCall'[1].raised = "InvalidState"
                /\ LogUnchanged]_vars

\* C21 happens: a PATCH or DELETE of an example that has revisions was refused
\* for its version id, which an earlier createVersion of the dataset returned.
C21_Witness ==
    /\ storeCall # None
    /\ storeCall[1].op = "appendRevision"
    /\ storeCall[1].raised = "InvalidState"
    /\ storeCall[1].tuples[1][2] \in {"PATCH", "DELETE"}
    /\ \E r \in revisions : r.dataset_example_id = storeCall[1].tuples[1][1]
    /\ storeCall[1].versionId \in VersionsOf(storeCall[1].datasetId)
    /\ storeCall[1].versionId < Max(VersionsOf(storeCall[1].datasetId))

\* The revisions of the tuples of a batch.
BatchOf(v, tuples) ==
    {Revision(TupleExample(tuples, i), v, tuples[i][2],
              IF tuples[i][2] = "DELETE" THEN NoPayload
              ELSE Payload(TupleExample(tuples, i), v)) : i \in DOMAIN tuples}

\* C22: a batched append whose tuples are all accepted and whose commit
\* succeeds adds the revisions of all its tuples to the log; if a tuple is
\* rejected or the commit fails it adds none and the log is as before.
C22_BatchAllOrNothing ==
    [][Calls("appendRevisions")
       => LET d == storeCall'[1].datasetId
              v == storeCall'[1].versionId
              tuples == storeCall'[1].tuples
          IN IF /\ storeCall'[1].commits
                /\ \A i \in DOMAIN tuples : appendRevisions(d, v, tuples)[i].raised = ""
             THEN /\ BatchOf(v, tuples) \subseteq revisions'
                  /\ revisions' = revisions \cup BatchOf(v, tuples)
                  /\ storeCall'[1].raised = ""
             ELSE /\ LogUnchanged
                  /\ storeCall'[1].raised # ""]_vars

\* C22 happens: a batch was refused for its second tuple, a PATCH or DELETE of
\* an example without a revision, after its first tuple, a CREATE at the
\* latest version of the dataset, was accepted.
C22_Witness ==
    /\ storeCall # None
    /\ storeCall[1].op = "appendRevisions"
    /\ storeCall[1].raised = "InvalidState"
    /\ storeCall[1].message[3] = 2
    /\ storeCall[1].tuples[1][2] = "CREATE"
    /\ LatestVersion(storeCall[1].datasetId) = Some(storeCall[1].versionId)

\* No DELETE revision of an example of the dataset has a version in (V1, V2].
NoDeleteBetween(d, V1, V2) ==
    ~\E r \in revisions :
        /\ examples[r.dataset_example_id] = d
        /\ r.revision_kind = "DELETE"
        /\ V1 < r.dataset_version_id
        /\ r.dataset_version_id <= V2

\* C23: over versions V1 < V2 with no DELETE revision of dataset D in
\* (V1, V2], every example of getSnapshot(D, V1) is in getSnapshot(D, V2).
C23_SnapshotGrowsWithoutDeletes ==
    \A d \in DatasetIds : \A V1, V2 \in VersionIds :
        (V1 < V2 /\ NoDeleteBetween(d, V1, V2))
        => SnapshotExamples(d, Some(V1)) \subseteq SnapshotExamples(d, Some(V2))

\* C23 happens: version V2 was exported, and an example of the snapshot at an
\* earlier version V1 was patched in (V1, V2] while none was deleted there.
C23_Witness ==
    /\ Exported
    /\ ExportedCeiling # None
    /\ ExportedCeiling[1] \in VersionIds
    /\ \E V1 \in VersionIds :
          /\ V1 < ExportedCeiling[1]
          /\ NoDeleteBetween(ExportedDataset, V1, ExportedCeiling[1])
          /\ \E r \in revisions :
                /\ r.dataset_example_id \in SnapshotExamples(ExportedDataset, Some(V1))
                /\ r.revision_kind = "PATCH"
                /\ V1 < r.dataset_version_id
                /\ r.dataset_version_id <= ExportedCeiling[1]

\* The step is the export handler reading a snapshot.
ReadsSnapshot == download = None /\ download' # None

ExportedUpload == versions[CHOOSE v \in VersionsOf(ExportedDataset) : TRUE].origin
UploadedLines(r) == ParsedForm(r).value.file.content.lines
Cell(lines, row, name) == lines[row + 1][CHOOSE c \in DOMAIN lines[1] : lines[1][c] = name]
RoleKeysOf(r) ==
    ParsedForm(r).value.input_keys \cup ParsedForm(r).value.output_keys
        \cup ParsedForm(r).value.metadata_keys

\* The field of an exported record holds the uploaded text of the cell. The
\* value under the index key is a number and a CSV cell is text, so the field
\* of that name holds the cell only if it does not hold the index.
FieldHolds(record, name, index, cell) ==
    IF name = "__example_index__" THEN record[name] # index
    ELSE record[name] = cell

\* C25: the latest snapshot of a dataset made by one applied CSV upload of N
\* rows with distinct header names and disjoint role keys has N records, the
\* i-th with example_index i - 1 and with the uploaded values of the i-th row
\* under the role keys.
C25_RoundTrip ==
    (/\ Exported
     /\ ExportedCeiling = None
     /\ Cardinality(VersionsOf(ExportedDataset)) = 1)
    => LET lines == UploadedLines(ExportedUpload)
           records == download[1].response.records
       IN /\ Len(records) = Len(lines) - 1
          /\ \A i \in DOMAIN records :
                /\ records[i]["__example_index__"] = i - 1
                /\ \A name \in RoleKeysOf(ExportedUpload) :
                      FieldHolds(records[i], name, i - 1, Cell(lines, i, name))

\* C26: an upload answered with the Capacity rejection has its lazy record
\* sequence closed when the response is returned; none leaves it open.
C26_CapacityRejectionClosesExamples ==
    \A r \in DOMAIN uploads :
        (/\ Answered(r)
         /\ uploads[r].response[1].status = 429)
        => /\ uploads[r].examples = "closed"
           /\ uploads[r].state = "REJECTED"

\* C26 happens: an upload that passed the validation was rejected for
\* capacity while the job of another upload, whose sequence is open, waits.
C26_Witness ==
    \E r, other \in DOMAIN uploads :
        /\ Answered(r)
        /\ uploads[r].response[1].status = 429
        /\ uploads[r].examples = "closed"
        /\ Enqueued(other)
        /\ uploads[other].examples = "open"
\* C28: get(k) returns v exactly when the most recent set or delete on k was
\* set(k, v, expires) and the time of the get is strictly before that set's
\* time plus expires; otherwise it returns None, and then k is not in the
\* cache any more (an expired entry that get found was removed).
C28_GetReturnsUnexpiredLastSet ==
    cacheCall # None =>
        LET call == cacheCall[1]
            last == lastSet[call.key]
        IN
        /\ call.value =
              IF last # None /\ call.time < last[1].time + last[1].expires
              THEN Some(last[1].value)
              ELSE None
        /\ call.value = None => call.key \notin DOMAIN _data

\* get found an entry at the very second it expires, after a positive lifetime.
C28_Witness ==
    /\ cacheCall # None
    /\ cacheCall[1].found
    /\ lastSet[cacheCall[1].key] # None
    /\ lastSet[cacheCall[1].key][1].expires > 0
    /\ cacheCall[1].time =
          lastSet[cacheCall[1].key][1].time + lastSet[cacheCall[1].key][1].expires
\* The records decoded from the file of upload r.
Decoded(r) == post_datasets_upload_file(ParsedForm(r).value).value.examples

\* The revisions the open transaction has appended and not yet committed.
Appended(t) == t.session.revisions \ revisions

\* Every applied job has exactly one version, and as many revisions carry that
\* version id as records were decoded from the job's upload; the revisions an
\* open transaction has appended carry the version the transaction allocated
\* for its job.
C29_OneVersionPerJob ==
    /\ \A r \in DOMAIN uploads :
          uploads[r].state = "APPLIED" =>
              /\ Cardinality({v \in VersionIds : versions[v].origin = r}) = 1
              /\ Cardinality({rev \in revisions :
                                 rev.dataset_version_id = VersionOf(r)})
                    = Len(Decoded(r))
    /\ transaction # None =>
          /\ Cardinality({v \in DOMAIN transaction[1].session.versions \ VersionIds :
                             transaction[1].session.versions[v].origin
                                = transaction[1].job.upload})
                = IF JobAccepted(transaction[1].job) THEN 1 ELSE 0
          /\ Len(transaction[1].session.versions) <= Len(versions) + 1
          /\ \A rev \in Appended(transaction[1]) :
                rev.dataset_version_id = Len(versions) + 1

\* A step of the worker that appends a revision finds the version of its job
\* allocated before the step.
C29_AllocatedBefore ==
    (/\ transaction # None
     /\ transaction' # None
     /\ Appended(transaction[1])' # Appended(transaction[1]))
    => \A rev \in Appended(transaction[1])' \ Appended(transaction[1]) :
          /\ rev.dataset_version_id \in DOMAIN transaction[1].session.versions
          /\ rev.dataset_version_id \notin VersionIds
          /\ transaction[1].session.versions[rev.dataset_version_id].origin
                = transaction[1].job.upload

\* C29: for every job the worker applies exactly one new DatasetVersion is
\* allocated, the allocation happens before any of the job's revisions is
\* appended, and the number of revisions carrying that version id equals the
\* number of records decoded from the job's upload.
C29_OneVersionAllocatedFirst ==
    []C29_OneVersionPerJob /\ [][C29_AllocatedBefore]_vars

\* Two jobs were applied, the second with version 2 and one revision per record.
C29_Witness ==
    \E r \in DOMAIN uploads :
        /\ uploads[r].state = "APPLIED"
        /\ VersionOf(r) = 2
        /\ Len(Decoded(r)) = 2
        /\ Cardinality({rev \in revisions : rev.dataset_version_id = 2}) = 2
\* The lifecycle state of the r-th upload, "NONE" before it is received.
StateOf(r) == IF r \in DOMAIN uploads THEN uploads[r].state ELSE "NONE"

\* The job of every admitted upload the worker has not taken is in the queue,
\* once.
C30_AdmittedJobsHeld ==
    \A r \in DOMAIN uploads :
        uploads[r].state = "ENQUEUED"
            => Cardinality({i \in DOMAIN queue : queue[i].upload = r}) = 1

\* An upload that is APPLIED or REJECTED keeps its state in every step.
C30_Terminal ==
    \A r \in DOMAIN uploads :
        uploads[r].state \in {"APPLIED", "REJECTED"}
            => uploads'[r].state = uploads[r].state

\* C30: with the worker scheduled fairly, every job admitted to the queue is
\* eventually taken by the worker and ends applied or failed; until then it
\* stays in the queue (it is not cancelled or dropped), and a request that
\* reached APPLIED or REJECTED never changes state again.
C30_AdmittedJobsComplete ==
    /\ \A r \in 1..MaxFairUploads :
          (StateOf(r) = "ENQUEUED") ~> (StateOf(r) \in {"APPLIED", "FAILED"})
    /\ []C30_AdmittedJobsHeld
    /\ [][C30_Terminal]_vars

\* A job that waited behind another in the queue was taken and failed, after
\* the job in front of it was applied.
C30_Witness ==
    \E r, w \in DOMAIN uploads :
        /\ uploads[r].state = "APPLIED"
        /\ uploads[w].state = "FAILED"
        /\ uploads[r].admitted < uploads[w].admitted
        /\ uploads[w].admitted < uploads[r].done
\* The response returned for an upload stays what it is in every step.
C31_ResponseKept ==
    \A r \in DOMAIN uploads :
        uploads[r].response # None => uploads'[r].response = uploads[r].response

\* An admitted upload has the response of an accepted one while its job waits
\* in the queue, after the worker applied the job and after it failed on it.
C31_AcceptedAtAdmission ==
    \A r \in DOMAIN uploads :
        uploads[r].state \in {"ENQUEUED", "APPLIED", "FAILED"}
            => uploads[r].response = Some(Response(200, <<>>, <<>>))

\* C31: the response to an upload is fixed at admission: the caller receives
\* the same accepted response whether the worker later applies the job or
\* fails on it, and the response is produced without waiting for the worker.
C31_ResponseFixedAtAdmission ==
    []C31_AcceptedAtAdmission /\ [][C31_ResponseKept]_vars

\* The worker failed on one admitted job and applied another; a third waits.
C31_Witness ==
    \E r, w, x \in DOMAIN uploads :
        /\ uploads[r].state = "FAILED"
        /\ uploads[w].state = "APPLIED"
        /\ uploads[x].state = "ENQUEUED"
        /\ uploads[r].response = uploads[w].response
C33_ReadOnlyForbidden ==
    read_only =>
        /\ \A r \in DOMAIN uploads :
              /\ uploads[r].state = "REJECTED"
              /\ uploads[r].response = Some(Response(403, <<>>, <<>>))
              /\ uploads[r].cause = "read_only"
              /\ uploads[r].examples = "none"
              /\ uploads[r].admitted = 0
        /\ queue = <<>>
        /\ transaction = None
        /\ datasets = <<>>
        /\ versions = <<>>
        /\ examples = <<>>
        /\ revisions = {}

\* In read-only mode a form that does not parse and a form that would have
\* been admitted were both answered.
C33_Witness ==
    /\ read_only
    /\ \E r, w \in DOMAIN uploads :
          /\ ParsedForm(r).raised # ""
          /\ ParsedForm(w).raised = ""
          /\ post_datasets_upload_file(ParsedForm(w).value).raised = ""
\* The finished calls of migrate_in_thread.
ThreadedMigrations ==
    {i \in DOMAIN migrations : migrations[i].kind = "migrate_in_thread"}

\* C34: migrate_in_thread returns normally if and only if the migration
\* thread finished without raising; if the migration raised,
\* migrate_in_thread raises PhoenixMigrationError caused by that error. The
\* queue is read when the thread has ended, so no error is missed.
C34_ThreadErrorReported ==
    \A i \in ThreadedMigrations :
        LET m == migrations[i] IN
        /\ m.ended \in {"returned", "raised"}
        /\ m.outcome.raised = "" <=> (m.ended = "returned" /\ m.error = None)
        /\ m.error # None =>
              /\ m.outcome.raised = "PhoenixMigrationError"
              /\ m.outcome.cause = m.error

\* One call of migrate_in_thread returned, and one raised for an interrupt of
\* the migration thread.
C34_Witness ==
    \E i, j \in ThreadedMigrations :
        /\ migrations[i].outcome.raised = ""
        /\ migrations[j].outcome.raised = "PhoenixMigrationError"
        /\ migrations[j].queued = Some(<<"KeyboardInterrupt">>)
\* C35: migrate propagates every exception raised while running the upgrade
\* to its caller, both when an error queue was supplied (the exception is
\* also put on the queue) and when none was supplied; a failed migration
\* never returns normally.
C35_MigratePropagates ==
    \A i \in DOMAIN migrations :
        LET m == migrations[i] IN
        m.error # None =>
            /\ m.ended = "raised"
            /\ m.supplied => m.queued = Some(<<m.error[1]>>)
            /\ m.kind = "migrate" => m.outcome = Raise(m.error[1], <<>>)
\* What a set or delete of `key` does to the entries of the other keys and
\* to the time of the last cleanup: with more than the cleanup interval
\* elapsed, the entries expiring at or before now are removed, those get
\* would still return are kept as they are, and now is recorded; within the
\* interval every entry is kept and the recorded time stays.
CleansUp(key) ==
    IF now - _last_cleanup_time > _cleanup_interval
    THEN /\ _last_cleanup_time' = now
         /\ \A k \in DOMAIN _data \ {key} :
               IF _data[k][2] <= now
               THEN k \notin DOMAIN _data'
               ELSE k \in DOMAIN _data' /\ _data'[k] = _data[k]
    ELSE /\ _last_cleanup_time' = _last_cleanup_time
         /\ \A k \in DOMAIN _data \ {key} :
               k \in DOMAIN _data' /\ _data'[k] = _data[k]

\* C36: a set or delete executed when more than cleanup_interval has elapsed
\* since the last cleanup removes every entry whose expiry is at or before the
\* current time and records the cleanup time; cleanup never removes an entry
\* that get would still return at that time, and a set or delete executed
\* within the interval removes no other key's entry.
C36_CleanupRemovesExpiredOnly ==
    [][\A key \in CacheKeys :
          ((\E value \in CacheValues, expires \in Expires : CacheSet(key, value, expires))
           \/ CacheDelete(key))
          => /\ CleansUp(key)
             /\ DOMAIN _data' \subseteq DOMAIN _data \cup {key}]_vars

\* A cleanup ran at this second, in a set of another key: the entry of one
\* key, expiring at this very second after a positive lifetime, is gone.
C36_Witness ==
    /\ cacheCall = None
    /\ _last_cleanup_time = now
    /\ now > _cleanup_interval
    /\ \E k, j \in CacheKeys :
          /\ lastSet[k] # None
          /\ lastSet[k][1].expires > 0
          /\ lastSet[k][1].time + lastSet[k][1].expires = now
          /\ k \notin DOMAIN _data
          /\ j \in DOMAIN _data
          /\ lastSet[j] # None
          /\ lastSet[j][1].time = now

====
